---- MODULE Spec2Model ----
(***************************************************************************)
(* Order Store (reports/deliverys/{local_id}/{date}.json), Didi identifier *)
(* reconciliation (restaurant_map x didi_restaurant_map), photo folders    *)
(* (uploads/{codigo}/...) and the appeals ledger (reports/apelaciones.json)*)
(* of app/main.py and app/router.py.                                       *)
(*                                                                         *)
(* Python strings on which the code works character by character (codes,   *)
(* ids, dates) are tuples of one-character strings; None, a missing key    *)
(* and "" are all read by the code through `x.get(k) or ""` and are the    *)
(* empty tuple here.                                                       *)
(***************************************************************************)
EXTENDS Integers, Sequences, FiniteSets, TLC

VARIABLES deliverys, didi_map, uploads, no_entregadas, apelaciones,
          notificaciones, now, last, renamed, requests, scheduler

vars == <<deliverys, didi_map, uploads, no_entregadas, apelaciones,
          notificaciones, now, last, renamed, requests, scheduler>>

storeVars == <<deliverys, didi_map, uploads, no_entregadas, renamed>>

ledgerVars == <<apelaciones, notificaciones, now>>

\* the requests the worker threads are serving, and the poller of orders
procVars == <<requests, scheduler>>

----------------------------------------------------------------------------
(* Bounds of the model *)

\* longest "data" list kept in one partition file
MaxRows == 2
\* number of appeal records in the ledger
MaxItems == 2
\* last day of the clock
MaxDay == 1
\* notifications kept in the model
MaxNotifs == 1
\* refund events, and debit events, kept on one appeal record
MaxEvents == 2
\* largest monto_empresa_asume a record is taken to
MaxAbsorbed == 40000
\* last day of the clock where the days to appeal run out
MaxClock == 6
\* iterations the poller of orders is followed through
MaxRuns == 2

----------------------------------------------------------------------------
(* str helpers *)

Digits == {"0", "1", "2", "3", "4", "5", "6", "7", "8", "9"}
Letters ==
    {"a", "b", "c", "d", "e", "f", "g", "h", "i", "j", "k", "l", "m",
     "n", "o", "p", "q", "r", "s", "t", "u", "v", "w", "x", "y", "z",
     "A", "B", "C", "D", "E", "F", "G", "H", "I", "J", "K", "L", "M",
     "N", "O", "P", "Q", "R", "S", "T", "U", "V", "W", "X", "Y", "Z"}

RECURSIVE LStrip(_)
LStrip(s) == IF s # <<>> /\ Head(s) = " " THEN LStrip(Tail(s)) ELSE s

RECURSIVE RStrip(_)
RStrip(s) ==
    IF s # <<>> /\ s[Len(s)] = " " THEN RStrip(SubSeq(s, 1, Len(s) - 1)) ELSE s

\* variant that keeps the blanks at the end: C25 fails of it
StripLeft(s) == LStrip(s)

\* str.strip()
Strip(s) == RStrip(LStrip(s))

\* str.lstrip("#")
RECURSIVE LStripHash(_)
LStripHash(s) == IF s # <<>> /\ Head(s) = "#" THEN LStripHash(Tail(s)) ELSE s

\* str.isdigit(): False for the empty string
IsDigit(s) == s # <<>> /\ \A i \in 1..Len(s) : s[i] \in Digits

\* s[:n]
Prefix(s, n) == SubSeq(s, 1, IF Len(s) < n THEN Len(s) ELSE n)

\* (row.get("delivery_fecha") or "").strip()[:10]
FechaDay(f) == Prefix(Strip(f), 10)

_normalize_didi_display_num(display_num) ==
    LET s == Strip(display_num)
    IN  IF s # <<>> /\ Head(s) = "#" THEN Tail(s) ELSE s

\* variant that knows the display code only with its '#': C4 fails of it
_looks_like_hash_only(cod) ==
    LET s == Strip(cod)
    IN  /\ s # <<>>
        /\ Len(s) <= 15
        /\ Head(s) = "#" /\ Len(s) > 1 /\ IsDigit(Tail(s))

_looks_like_didi_display_num(cod) ==
    LET s == Strip(cod)
    IN  IF s = <<>> \/ Len(s) > 15 THEN FALSE
        ELSE IF Head(s) = "#" /\ Len(s) > 1 /\ IsDigit(Tail(s)) THEN TRUE
        ELSE IF IsDigit(s) /\ 4 <= Len(s) /\ Len(s) <= 10 THEN TRUE
        ELSE FALSE

sin_codigo == <<"s", "i", "n", "_", "c", "o", "d", "i", "g", "o">>

_sanitize_codigo(codigo) ==
    LET s == Strip(codigo)
        t == [i \in 1..Len(s) |->
                IF s[i] \in Digits \cup Letters \cup {".", "_", "-"}
                THEN s[i] ELSE "_"]
    IN  IF t = <<>> THEN sin_codigo ELSE t

----------------------------------------------------------------------------
(* Order Store: reports/deliverys/{local_id}/{date}.json *)

\* The insertion-ordered dict existing_by_id is a sequence of key/value
\* pairs.  A key is the delivery_id, or the synthetic "__existing_{i}" /
\* "__new_{n}" of a row without delivery_id.
IdKey(did) == [kind |-> "id", id |-> did, n |-> 0]
ExistingKey(i) == [kind |-> "__existing", id |-> <<>>, n |-> i]
NewKey(n) == [kind |-> "__new", id |-> <<>>, n |-> n]

DictHas(d, k) == \E i \in 1..Len(d) : d[i].key = k
DictIndex(d, k) == CHOOSE i \in 1..Len(d) : d[i].key = k
DictGet(d, k) == d[DictIndex(d, k)].val
DictValues(d) == [i \in 1..Len(d) |-> d[i].val]

\* variant that never finds the key: C3 fails of it
DictSetAppend(d, k, v) == Append(d, [key |-> k, val |-> v])

\* existing_by_id[k] = v
DictSet(d, k, v) ==
    IF DictHas(d, k) THEN [d EXCEPT ![DictIndex(d, k)].val = v]
    ELSE Append(d, [key |-> k, val |-> v])

\* variant that keys the rows by their code: C8 fails of it
DeliveryCode(row) == Strip(row.delivery_codigolimadelivery)

\* did = (row.get("delivery_id") or "").strip()
DeliveryId(row) == Strip(row.delivery_id)

\* isinstance(row, dict): an element of "data" that is no JSON object has
\* none of the keys
IsDict(row) == "delivery_id" \in DOMAIN row

\* a JSON number where the code expects a str: `(v or "").strip()` raises
\* AttributeError on it
NotAString == <<"int">>

\* variant that starts from an empty dict, replacing the file: C1 fails of
\* it
LoadExistingReplace(existing_list, i, filter, date_str, d) == <<>>

\* the loop over existing_list, from its i-th row on; with filter only the
\* rows of the consultation date are kept
RECURSIVE LoadExisting(_, _, _, _, _)
LoadExisting(existing_list, i, filter, date_str, d) ==
    IF i > Len(existing_list) THEN d
    ELSE LET r == existing_list[i]
             did == DeliveryId(r)
             key == IF did # <<>> THEN IdKey(did) ELSE ExistingKey(i - 1)
         IN  IF filter /\ FechaDay(r.delivery_fecha) # date_str
             THEN LoadExisting(existing_list, i + 1, filter, date_str, d)
             ELSE LoadExisting(existing_list, i + 1, filter, date_str,
                               DictSet(d, key, r))

\* the body of the loop over the incoming rows
MergeRow(d, row) ==
    LET did == DeliveryId(row)
    IN  IF did # <<>>
        THEN LET has == DictHas(d, IdKey(did))
                 cod == IF has
                        THEN Strip(DictGet(d, IdKey(did)).delivery_codigolimadelivery)
                        ELSE <<>>
             IN  IF has /\ _looks_like_didi_display_num(cod)
                 THEN DictSet(d, IdKey(did),
                              [row EXCEPT !.delivery_codigolimadelivery = cod])
                 ELSE DictSet(d, IdKey(did), row)
        ELSE DictSet(d, NewKey(Len(d)), row)

RECURSIVE MergeRows(_, _, _, _)
MergeRows(d, rows, i, date_str) ==
    IF i > Len(rows) THEN d
    ELSE IF ~IsDict(rows[i]) \/ FechaDay(rows[i].delivery_fecha) # date_str
         THEN MergeRows(d, rows, i + 1, date_str)
         ELSE MergeRows(MergeRow(d, rows[i]), rows, i + 1, date_str)

\* the new "data" list of the file of date_str
MergeFile(existing_list, data, filter, date_str) ==
    DictValues(MergeRows(LoadExisting(existing_list, 1, filter, date_str, <<>>),
                         data, 1, date_str))

----------------------------------------------------------------------------
(* Identifier reconciliation: restaurant_map x didi_restaurant_map *)

DidiFood == "Didi Food"
FotoSubs == {"entrega", "apelacion", "respuestas"}

\* codes of the Didi rows of one file, without repetitions, in file order
RECURSIVE DidiCodes(_, _, _)
DidiCodes(data, i, acc) ==
    IF i > Len(data) THEN acc
    ELSE LET cod == Strip(data[i].delivery_codigolimadelivery)
         IN  IF data[i].canaldelivery_descripcion # DidiFood \/ cod = <<>>
                \/ (\E j \in 1..Len(acc) : acc[j] = cod)
             THEN DidiCodes(data, i + 1, acc)
             ELSE DidiCodes(data, i + 1, Append(acc, cod))

\* by_local as written to restaurant_map_{date}.json; a local without Didi
\* codes has no key, which the reader treats like an empty list
_build_restaurant_map_for_date(dl, date_str) ==
    [l \in DOMAIN dl |-> DidiCodes(dl[l][date_str], 1, <<>>)]

\* the displayNum the map gives for the code of a row, <<>> when the row is
\* skipped
DisplayNumFor(row, dmap) ==
    LET cod == Strip(row.delivery_codigolimadelivery)
    IN  IF cod \notin DOMAIN dmap THEN <<>>
        ELSE _normalize_didi_display_num(Strip(dmap[cod]))

FolderExists(up, folder) == \E f \in up : f.folder = folder
FileExists(up, folder, sub, rel) ==
    \E f \in up : f.folder = folder /\ f.sub = sub /\ f.rel = rel

\* variant that copies over what is at the destination: C9 fails of it
CopyFotosOverwrite(up, cod, display_num) ==
    LET src == _sanitize_codigo(cod)
        dst == _sanitize_codigo(display_num)
        copied == {[f EXCEPT !.folder = dst] :
                     f \in {g \in up : g.folder = src /\ g.sub \in FotoSubs}}
    IN  {f \in up : ~ \E c \in copied :
                        c.folder = f.folder /\ c.sub = f.sub /\ c.rel = f.rel}
        \cup copied

\* copy uploads/{cod}/{sub}/** to uploads/{display_num}/{sub}/**, keeping
\* what is already at the destination
CopyFotos(up, cod, display_num) ==
    LET src == _sanitize_codigo(cod)
        dst == _sanitize_codigo(display_num)
    IN  IF ~ FolderExists(up, src) THEN up
        ELSE up \cup {[f EXCEPT !.folder = dst] :
                        f \in {g \in up : /\ g.folder = src
                                          /\ g.sub \in FotoSubs
                                          /\ ~ FileExists(up, dst, g.sub, g.rel)}}

\* variant without the `continue` tests: C6 fails of it
RowMatchesAny(row, dmap) == TRUE

\* the row passes the three `continue` tests of the loop
RowMatches(row, dmap) == DisplayNumFor(row, dmap) # <<>>

\* the loop over the rows of one file: acc = [data, up, changed]
RECURSIVE CrossRows(_, _, _)
CrossRows(acc, i, dmap) ==
    IF i > Len(acc.data) THEN acc
    ELSE LET row == acc.data[i]
             display_num == DisplayNumFor(row, dmap)
         IN  IF ~ RowMatches(row, dmap)
             THEN CrossRows(acc, i + 1, dmap)
             ELSE CrossRows(
                    [data |-> [acc.data EXCEPT
                                 ![i].delivery_codigolimadelivery = display_num],
                     up |-> CopyFotos(acc.up,
                                      Strip(row.delivery_codigolimadelivery),
                                      display_num),
                     changed |-> TRUE],
                    i + 1, dmap)

\* the loop over by_local, in the order of the dict: st = [dl, up, changed]
RECURSIVE CrossLocals(_, _, _, _, _, _)
CrossLocals(st, order, i, by_local, dmap, date_str) ==
    IF i > Len(order) THEN st
    ELSE LET l == order[i]
             data == st.dl[l][date_str]
             r == CrossRows([data |-> data, up |-> st.up, changed |-> FALSE],
                            1, dmap)
         IN  IF by_local[l] = <<>> \/ data = <<>>
             THEN CrossLocals(st, order, i + 1, by_local, dmap, date_str)
             ELSE CrossLocals(
                    [dl |-> IF r.changed
                            THEN [st.dl EXCEPT ![l][date_str] = r.data]
                            ELSE st.dl,
                     up |-> r.up,
                     changed |-> IF r.changed THEN st.changed \cup {l}
                                 ELSE st.changed],
                    order, i + 1, by_local, dmap, date_str)

\* result [dl, up, changed]: the partition files, the photo folders and the
\* locals whose file was written back (updates_by_file)
_cross_didi_map_and_update_orders(dl, up, by_local, dmap, order, date_str) ==
    IF dmap = <<>> THEN [dl |-> dl, up |-> up, changed |-> {}]
    ELSE CrossLocals([dl |-> dl, up |-> up, changed |-> {}],
                     order, 1, by_local, dmap, date_str)

\* _extract_order_id_to_display and the merge {**existing, **new_map}
RECURSIVE _update_map(_, _, _)
_update_map(existing, orders, i) ==
    IF i > Len(orders) THEN existing
    ELSE LET oid == Strip(orders[i].orderId)
             display == Strip(orders[i].displayNum)
         IN  IF oid = <<>> \/ display = <<>>
             THEN _update_map(existing, orders, i + 1)
             ELSE _update_map(
                    [k \in DOMAIN existing \cup {oid} |->
                        IF k = oid THEN display ELSE existing[k]],
                    orders, i + 1)

----------------------------------------------------------------------------
(* Photo folders: uploads/{codigo}/{entrega | apelacion/{canal} | respuestas}
   A file is [folder, sub, rel, content]; rel is its path below the group
   folder.  A directory is there when a file is under it. *)

sin_nombre == <<"s", "i", "n", "_", "n", "o", "m", "b", "r", "e">>
general == <<"g", "e", "n", "e", "r", "a", "l">>
InvalidPathChars == {"\\", "/", ":", "*", "?", "\"", "<", ">", "|"}

_sanitize_path(name) ==
    LET s == Strip(name)
        t == [i \in 1..Len(s) |-> IF s[i] \in InvalidPathChars THEN "_" ELSE s[i]]
    IN  IF t = <<>> THEN sin_nombre ELSE t

\* path.write_bytes(content): the file is created or replaced
WriteBytes(up, folder, sub, rel, content) ==
    {f \in up : ~ (f.folder = folder /\ f.sub = sub /\ f.rel = rel)}
        \cup {[folder |-> folder, sub |-> sub, rel |-> rel, content |-> content]}

\* the loop over the files of one upload
RECURSIVE SaveFotos(_, _, _, _, _, _)
SaveFotos(up, folder, sub, dir, files, i) ==
    IF i > Len(files) THEN up
    ELSE IF files[i].filename = <<>>
         THEN SaveFotos(up, folder, sub, dir, files, i + 1)
         ELSE SaveFotos(WriteBytes(up, folder, sub,
                                   dir \o <<_sanitize_path(files[i].filename)>>,
                                   files[i].content),
                        folder, sub, dir, files, i + 1)

\* the row _find_order_by_codigo returns from one file: the first whose
\* code, as stored or without its "#", is cod
RowMatchesCodigo(row, cod) ==
    LET cod_lima == Strip(row.delivery_codigolimadelivery)
        norm == _normalize_didi_display_num(cod_lima)
        cod_lima_norm == IF norm = <<>> THEN cod_lima ELSE norm
    IN  cod_lima = cod \/ cod_lima_norm = cod

\* the first row of one file that matches
FirstMatch(data, cod) ==
    {data[i] : i \in {k \in 1..Len(data) :
                        /\ RowMatchesCodigo(data[k], cod)
                        /\ \A j \in 1..(k - 1) : ~ RowMatchesCodigo(data[j], cod)}}

\* the rows _find_order_by_codigo may return: the first match of a file,
\* for whichever file iterdir()/glob() lists first among those with a match;
\* the empty set when it returns None
_find_order_by_codigo(dl, codigo) ==
    LET cod == LStripHash(Strip(codigo))
    IN  IF cod = <<>> THEN {}
        ELSE UNION {UNION {FirstMatch(dl[l][d], cod) : d \in DOMAIN dl[l]} :
                      l \in DOMAIN dl}

----------------------------------------------------------------------------
(* Inputs *)

Locals == {"12"}

D1 == <<"2", "0", "2", "4", "-", "0", "5", "-", "0", "1">>
D2 == <<"2", "0", "2", "4", "-", "0", "5", "-", "0", "2">>
Dates == {D1, D2}
Hora == <<" ", "1", "0", ":", "0", "0">>

\* a Didi orderId and displayNums as the dailyOrders payload carries them
LongId == <<"5", "7", "6", "4", "6", "5", "9", "5", "9", "1",
            "5", "3", "1", "0", "0", "7", "0", "0", "3">>
Display6 == <<"#", "3", "5", "7", "0", "0", "2">>
Display2 == <<"#", "1", "2">>

Row(id, fecha, cod, canal, importe) ==
    [delivery_id |-> id, delivery_fecha |-> fecha,
     delivery_codigolimadelivery |-> cod,
     canaldelivery_descripcion |-> canal, delivery_importe |-> importe]

\* rows as obtenerDeliverysPorLocalSimple returns them: a Didi order, the
\* same order with its amount not yet known, an order of another channel,
\* a row without delivery_id, and an order dated the day after
RowDidi == Row(<<"7">>, D1 \o Hora, LongId, DidiFood, "25000")
RowDidiPartial == Row(<<"7">>, D1 \o Hora, LongId, DidiFood, "")
RowRappi == Row(<<"8">>, D1 \o Hora, LongId, "Rappi", "9000")
RowNoId == Row(<<>>, D1 \o Hora, <<>>, "Rappi", "9000")
RowNextDay == Row(<<"7">>, D2 \o Hora, LongId, DidiFood, "25000")

IncomingRows == {RowDidi, RowDidiPartial, RowRappi, RowNoId, RowNextDay}

\* the batches the poller hands over
Batches ==
    {<<r>> : r \in IncomingRows}
           \cup {<<RowDidiPartial, RowDidi>>}

DidiOrder(oid, display) == [orderId |-> oid, displayNum |-> display]

\* the serving/highlight lists of a dailyOrders payload
DidiBodies ==
    { <<DidiOrder(LongId, Display6)>>,
      <<DidiOrder(LongId, Display2)>>,
      <<DidiOrder(LongId, Display6), DidiOrder(Tail(Display6), Display2)>> }

\* the day the pollers and the capture endpoint run in (_get_today_colombia)
Hoy == D1

\* orders in which DELIVERYS_CACHE_DIR.iterdir() may list the locals
LocalOrders ==
    {o \in [1..Cardinality(Locals) -> Locals] :
        \A i, j \in 1..Cardinality(Locals) : o[i] = o[j] => i = j}

----------------------------------------------------------------------------
(* State and operations *)

NoOp == [op |-> "init", local |-> "", date |-> <<>>, data |-> <<>>,
         changed |-> {}]

\* the worker threads that serve the requests of the ledger
Threads == {1, 2}
Idle == [pc |-> "idle"]

\* _deliverys_scheduler_state before the first iteration; pos is the place
\* in local_ids of the site to fetch next, 0 between iterations; failed and
\* saved are the sites of the iteration whose fetch failed and whose save
\* ran; runs counts the times next_run_at was set; task is "running" until
\* deliverys_task.cancel() ends the coroutine
SchedulerIdle ==
    [status |-> "waiting", pos |-> 0, failed |-> {}, saved |-> {},
     last_error |-> FALSE, runs |-> 0, task |-> "running"]

\* empty reports/ and uploads/ with the folders of these sites
InitWith(sites) ==
    /\ deliverys = [l \in sites |-> [d \in Dates |-> <<>>]]
    /\ didi_map = [d \in Dates |-> <<>>]
    /\ uploads = {}
    /\ no_entregadas = {}
    /\ apelaciones = <<>>
    /\ notificaciones = <<>>
    /\ now = 0
    /\ last = NoOp
    /\ renamed = {}
    /\ requests = [t \in Threads |-> Idle]
    /\ scheduler = SchedulerIdle

Init == InitWith(Locals)

RowOf(data, did) ==
    data[CHOOSE i \in 1..Len(data) : Strip(data[i].delivery_id) = did]

HasId(data, did) == \E i \in 1..Len(data) : Strip(data[i].delivery_id) = did

\* history: the rows whose stored code is the one a rename wrote
StillRenamed(rs, dl) ==
    {e \in rs : /\ HasId(dl[e.local][e.date], e.did)
                /\ RowOf(dl[e.local][e.date], e.did).delivery_codigolimadelivery
                     = e.new}

NewRenames(dl, by_local, dmap, date_str) ==
    {[local |-> l, date |-> date_str,
      did |-> Strip(dl[l][date_str][i].delivery_id),
      old |-> Strip(dl[l][date_str][i].delivery_codigolimadelivery),
      new |-> DisplayNumFor(dl[l][date_str][i], dmap)] :
        <<l, i>> \in {p \in (DOMAIN dl) \X (1..MaxRows + 1) :
                        /\ p[2] <= Len(dl[p[1]][date_str])
                        /\ by_local[p[1]] # <<>>
                        /\ Strip(dl[p[1]][date_str][p[2]].delivery_id) # <<>>
                        /\ RowMatches(dl[p[1]][date_str][p[2]], dmap)}}

\* the rows of data that are objects
Dicts(data) == {i \in 1..Len(data) : IsDict(data[i])}

\* the keys of by_date, whose files the by-date branch writes
FechasOf(data) ==
    {FechaDay(data[i].delivery_fecha) : i \in Dicts(data)} \ {<<>>}

\* row_fecha = (row.get("delivery_fecha") or "").strip()[:10] raises
BadFecha(data) == \E i \in Dicts(data) : data[i].delivery_fecha = NotAString

\* the dates of the rows on which did = (...).strip() raises
BadIdDates(data) ==
    {FechaDay(data[i].delivery_fecha) :
        i \in {j \in Dicts(data) : data[j].delivery_id = NotAString}}

\* the place of a date among the keys of by_date, which are in the order
\* the dates come in data
FirstOf(data, d) ==
    CHOOSE i \in Dicts(data) :
        /\ FechaDay(data[i].delivery_fecha) = d
        /\ \A j \in Dicts(data) :
              FechaDay(data[j].delivery_fecha) = d => i <= j

\* whether _save_deliverys_for_local ends in an exception
SaveRaises(data, consultation_date) ==
    \/ BadFecha(data)
    \/ IF consultation_date # <<>>
       THEN Prefix(Strip(consultation_date), 10) \in BadIdDates(data)
       ELSE BadIdDates(data) \ {<<>>} # {}

\* the files _save_deliverys_for_local writes; consultation_date = <<>> is
\* None. With a consultation date the one file is written after the loop
\* over data, so not at all when a row raises; the by-date branch raises
\* on a date before any file when it builds by_date, and on a delivery_id
\* after it wrote the files of the dates that come before
SavedFiles(data, consultation_date) ==
    IF BadFecha(data) THEN {}
    ELSE IF consultation_date # <<>>
    THEN IF \/ Prefix(Strip(consultation_date), 10) = <<>>
            \/ SaveRaises(data, consultation_date)
         THEN {}
         ELSE {Prefix(Strip(consultation_date), 10)}
    ELSE {d \in FechasOf(data) :
            \A b \in BadIdDates(data) \ {<<>>} :
                FirstOf(data, d) < FirstOf(data, b)}

\* the partition files of all locals after
\* _save_deliverys_for_local(local_id, data, consultation_date)
_save_deliverys_for_local(dl, local_id, data, consultation_date) ==
    [dl EXCEPT ![local_id] =
        [d \in DOMAIN dl[local_id] |->
            IF d \in SavedFiles(data, consultation_date)
            THEN MergeFile(dl[local_id][d], data, consultation_date # <<>>, d)
            ELSE dl[local_id][d]]]

SaveDeliverys(local_id, data, consultation_date) ==
    /\ SavedFiles(data, consultation_date) \subseteq Dates
    /\ deliverys' = _save_deliverys_for_local(deliverys, local_id, data,
                                              consultation_date)
    /\ \A d \in Dates : Len(deliverys'[local_id][d]) <= MaxRows
    /\ last' = [op |-> IF SaveRaises(data, consultation_date)
                       THEN "save_raised" ELSE "save",
                local |-> local_id,
                date |-> consultation_date, data |-> data, changed |-> {}]
    /\ renamed' = StillRenamed(renamed, deliverys')
    /\ UNCHANGED <<procVars, didi_map, uploads, no_entregadas, ledgerVars>>

\* _on_didi_map_updated(date_str) up to its first await:
\* _build_restaurant_map_for_date, then _cross_didi_map_and_update_orders.
\* restaurant_map_{date}.json is written by the first and read back by the
\* second with nothing in between, in every caller: it is the value by_local
\* here and no variable.
Reconcile(opname, dmap, date_str, order) ==
    LET by_local == _build_restaurant_map_for_date(deliverys, date_str)
        r == _cross_didi_map_and_update_orders(deliverys, uploads, by_local,
                                               dmap, order, date_str)
    IN  /\ deliverys' = r.dl
        /\ uploads' = r.up
        /\ last' = [op |-> opname, local |-> "", date |-> date_str,
                    data |-> <<>>, changed |-> r.changed]
        /\ renamed' = StillRenamed(
                         renamed \cup NewRenames(deliverys, by_local, dmap,
                                                 date_str),
                         deliverys')

\* POST /didi/daily-orders-payload.  The router writes the map under
\* app.state.didi_capture_maps_dir = REPORTS_DIR/didi_maps and the rename
\* reads it under REPORTS_DIDI_MAPS_DIR, whose definition in app/config.py is
\* taken to be that same folder: didi_map is the one file of the day.
daily_orders_payload(orders, date_str, order) ==
    LET merged == _update_map(didi_map[date_str], orders, 1)
    IN  /\ didi_map' = [didi_map EXCEPT ![date_str] = merged]
        /\ Reconcile("daily_orders_payload", merged, date_str, order)
        /\ UNCHANGED <<procVars, no_entregadas, ledgerVars>>

\* GET|POST /didi/merge-now
merge_now(date_str, order) ==
    /\ Reconcile("merge_now", didi_map[date_str], date_str, order)
    /\ UNCHANGED <<procVars, didi_map, no_entregadas, ledgerVars>>

NextStore ==
    \/ \E l \in Locals, data \in Batches, cd \in {Hoy, <<>>} :
          SaveDeliverys(l, data, cd)
    \/ \E orders \in DidiBodies, o \in LocalOrders :
          daily_orders_payload(orders, Hoy, o)
    \/ \E o \in LocalOrders : merge_now(Hoy, o)

SpecStore == Init /\ [][NextStore]_vars

\* what the API may hand over in place of a row: an element that is no
\* object, a row without delivery_fecha, a row whose delivery_fecha is a
\* number and a row whose delivery_id is a number
NotADict == [scalar |-> "x"]
RowNoFecha == Row(<<"9">>, <<>>, LongId, "Rappi", "9000")
RowBadFecha == Row(<<"9">>, NotAString, LongId, "Rappi", "9000")
RowBadId == Row(NotAString, D1 \o Hora, LongId, "Rappi", "9000")
MalformedRows == {NotADict, RowNoFecha, RowBadFecha, RowBadId}
MalformedBatches ==
    {<<r>> : r \in {RowDidi, RowRappi}}
        \cup {<<b, r>> : b \in MalformedRows, r \in {RowDidi, RowRappi}}
        \cup {<<r, b>> : b \in MalformedRows, r \in {RowDidi, RowNextDay}}

NextMalformed ==
    \E l \in Locals, data \in MalformedBatches, cd \in {Hoy, <<>>} :
        SaveDeliverys(l, data, cd)

SpecMalformed == Init /\ [][NextMalformed]_vars

----------------------------------------------------------------------------
(* Photo uploads *)

\* what the cashier uploads: the code as typed or as shown with its "#"
UploadCodigos == {LongId, Display6}
UploadGroups == {"entrega", "apelacion"}
UploadCanales == {<<>>}
UploadFiles ==
    {<<[filename |-> <<"a">>, content |-> c]>> : c \in {"p", "q"}}
AssetBatches == {<<RowDidi>>}

\* POST /api/orders/no-entregada
api_mark_no_entregada(delivery_id) ==
    LET did == Strip(delivery_id)
    IN  /\ no_entregadas' = IF did = <<>> THEN no_entregadas
                            ELSE no_entregadas \cup {did}
        /\ last' = [op |-> "api_mark_no_entregada", local |-> "",
                    date |-> <<>>, data |-> <<>>, changed |-> {}]
        /\ UNCHANGED <<procVars, deliverys, didi_map, uploads, ledgerVars, renamed>>

\* POST /api/orders/{codigo}/fotos; every content is below max_file_size
api_upload_fotos(codigo, group, canal, files) ==
    LET cod == LStripHash(Strip(codigo))
        dir == IF group = "apelacion"
               THEN <<IF canal # <<>> THEN _sanitize_path(canal) ELSE general>>
               ELSE <<>>
        saved == \E i \in 1..Len(files) : files[i].filename # <<>>
        found == _find_order_by_codigo(deliverys, codigo)
    IN  /\ group \in {"entrega", "apelacion"}
        /\ files # <<>>
        /\ uploads' = SaveFotos(uploads, _sanitize_codigo(cod), group, dir,
                                files, 1)
        /\ IF group = "entrega" /\ saved /\ found # {}
           THEN \E order \in found :
                   no_entregadas' = no_entregadas \ {Strip(order.delivery_id)}
           ELSE no_entregadas' = no_entregadas
        /\ last' = [op |-> "api_upload_fotos", local |-> "", date |-> <<>>,
                    data |-> <<>>, changed |-> {}]
        /\ UNCHANGED <<procVars, deliverys, didi_map, ledgerVars, renamed>>

NextAssets ==
    \/ \E codigo \in UploadCodigos, group \in UploadGroups,
          canal \in UploadCanales, files \in UploadFiles :
          api_upload_fotos(codigo, group, canal, files)
    \/ \E row \in {RowDidi} : api_mark_no_entregada(row.delivery_id)
    \/ \E l \in Locals, data \in AssetBatches : SaveDeliverys(l, data, Hoy)
    \/ \E orders \in DidiBodies, o \in LocalOrders :
          daily_orders_payload(orders, Hoy, o)
    \/ \E o \in LocalOrders : merge_now(Hoy, o)

SpecAssets == Init /\ [][NextAssets]_vars

----------------------------------------------------------------------------
(* Appeals ledger: reports/apelaciones.json, {"items": [...]}
   None is the empty tuple and a number n that may be None is <<n>>; a key
   the item does not have yet reads as None through item.get(key). *)

MAX_NOTIFS_PER_SEDE == 100
ADMIN_NOTIF_LOCAL == <<"A", "D", "M", "I", "N">>
sin_canal == <<"s", "i", "n", "_", "c", "a", "n", "a", "l">>

\* variant that takes the first record whatever its code: C15 fails of it
_get_first_apelacion(items, codigo) ==
    IF items = <<>> THEN 0 ELSE 1

\* position of the item _get_apelacion_by_codigo returns, 0 for None
_get_apelacion_by_codigo(items, codigo) ==
    LET cod == Strip(codigo)
        hits == {i \in 1..Len(items) : Strip(items[i].codigo) = cod}
    IN  IF hits = {} THEN 0
        ELSE CHOOSE i \in hits : \A j \in hits : i <= j

\* items without the notifications of `local` past the first
\* MAX_NOTIFS_PER_SEDE of them
RECURSIVE LimitPorSede(_, _, _, _)
LimitPorSede(items, i, seen, local) ==
    IF i > Len(items) THEN <<>>
    ELSE IF items[i].local # local
         THEN <<items[i]>> \o LimitPorSede(items, i + 1, seen, local)
         ELSE IF seen >= MAX_NOTIFS_PER_SEDE
              THEN LimitPorSede(items, i + 1, seen + 1, local)
              ELSE <<items[i]>> \o LimitPorSede(items, i + 1, seen + 1, local)

\* notificaciones.json after _create_notificacion
_create_notificacion(notifs, local, tipo, codigo, fecha) ==
    LimitPorSede(<<[local |-> local, tipo |-> tipo, codigo |-> codigo,
                    leida |-> FALSE, fecha |-> fecha]>> \o notifs,
                 1, 0, local)

\* the step every ledger handler ends with; local = <<>> creates none
Notify(local, tipo, codigo) ==
    /\ notificaciones' = IF local = <<>> THEN notificaciones
                         ELSE _create_notificacion(notificaciones, local, tipo,
                                                   codigo, now)
    /\ Len(notificaciones') <= MaxNotifs

\* the ledger request answered last and the HTTP status of the answer
LedgerOp(opname, status) ==
    [op |-> opname, local |-> "", date |-> <<>>, data |-> <<>>,
     changed |-> {}, status |-> status]

\* raise HTTPException(status): nothing is written
Raise(opname, status) ==
    /\ last' = LedgerOp(opname, status)
    /\ UNCHANGED <<procVars, storeVars, ledgerVars>>

\* sum(float(r.get("monto") or 0) for r in events)
RECURSIVE SumMontos(_)
SumMontos(events) ==
    IF events = <<>> THEN 0
    ELSE Head(events).monto + SumMontos(Tail(events))

Max0(x) == IF x > 0 THEN x ELSE 0

\* a list-valued key is <<>> while the key is missing and <<list>> after
ListOf(v) == IF v = <<>> THEN <<>> ELSE v[1]

\* variant that writes the record anew, as for a code without record: C33
\* fails of it
Remarcar(item, body) ==
    [item EXCEPT !.canal = Strip(body.canal),
                 !.delivery_id = Strip(body.delivery_id),
                 !.monto_descontado = body.monto_descontado,
                 !.fecha_marcado = now,
                 !.local = Strip(body.local),
                 !.fecha = Strip(body.fecha),
                 !.monto_devuelto = <<>>,
                 !.fecha_apelado = <<>>,
                 !.reembolsos = <<>>,
                 !.descuentos = <<>>,
                 !.monto_empresa_asume = 0]

\* the record of the code after `for item in items: if ... == cod:`
Actualizar(item, body) ==
    [item EXCEPT !.canal = Strip(body.canal),
                 !.delivery_id = Strip(body.delivery_id),
                 !.monto_descontado = body.monto_descontado,
                 !.fecha_marcado = now,
                 !.local = Strip(body.local),
                 !.fecha = Strip(body.fecha)]

\* POST /api/apelaciones/marcar
api_marcar_apelacion(body) ==
    LET cod == Strip(body.codigo)
        local == Strip(body.local)
        idx == _get_apelacion_by_codigo(apelaciones, cod)
    IN  IF cod = <<>> THEN Raise("api_marcar_apelacion", 400)
        ELSE /\ apelaciones' =
                  IF idx # 0
                  THEN [apelaciones EXCEPT
                          ![idx] = Actualizar(apelaciones[idx], body)]
                  ELSE Append(apelaciones,
                         [codigo |-> cod,
                          canal |-> Strip(body.canal),
                          delivery_id |-> Strip(body.delivery_id),
                          monto_descontado |-> body.monto_descontado,
                          monto_devuelto |-> <<>>,
                          fecha_marcado |-> now,
                          fecha_apelado |-> <<>>,
                          local |-> local,
                          fecha |-> Strip(body.fecha),
                          fecha_estimada_devolucion |-> <<>>,
                          sede_decidio_no_apelar |-> FALSE,
                          reembolsos |-> <<>>,
                          reembolsado |-> FALSE,
                          monto_reembolsado |-> <<>>,
                          fecha_reembolso |-> <<>>,
                          descuentos |-> <<>>,
                          descuento_confirmado |-> FALSE,
                          fecha_descuento_confirmado |-> <<>>,
                          monto_empresa_asume |-> 0,
                          empresa_asume |-> FALSE,
                          fecha_empresa_asume |-> <<>>])
             /\ Len(apelaciones') <= MaxItems
             /\ Notify(local, "orden_por_apelar", cod)
             /\ last' = LedgerOp("api_marcar_apelacion", 200)
             /\ UNCHANGED <<procVars, storeVars, now>>

\* POST /api/apelaciones/apelar; the awaits of f.read() come after the
\* ledger is written
api_apelar(codigo, monto_devuelto, fecha_estimada_devolucion, files) ==
    LET cod == Strip(codigo)
        idx == _get_apelacion_by_codigo(apelaciones, cod)
    IN  IF cod = <<>> THEN Raise("api_apelar", 400)
        ELSE IF idx = 0 THEN Raise("api_apelar", 404)
        ELSE IF apelaciones[idx].monto_devuelto # <<>>
        THEN Raise("api_apelar", 400)
        ELSE LET ap == apelaciones[idx]
                 _ap_local == Strip(ap.local)
                 _ap_canal == Strip(ap.canal)
                 safe_canal == _sanitize_path(IF _ap_canal # <<>>
                                              THEN _ap_canal ELSE sin_canal)
             IN  /\ apelaciones' =
                       [apelaciones EXCEPT
                          ![idx].monto_devuelto = <<monto_devuelto>>,
                          ![idx].fecha_estimada_devolucion =
                             Prefix(Strip(fecha_estimada_devolucion), 10),
                          ![idx].fecha_apelado = <<now>>]
                 /\ uploads' = IF files = <<>> THEN uploads
                               ELSE SaveFotos(uploads, _sanitize_codigo(cod),
                                              "apelacion", <<safe_canal>>,
                                              files, 1)
                 /\ IF _ap_local # <<>>
                    THEN Notify(ADMIN_NOTIF_LOCAL, "apelacion_sede", cod)
                    ELSE Notify(<<>>, "", cod)
                 /\ last' = LedgerOp("api_apelar", 200)
                 /\ UNCHANGED <<procVars, deliverys, didi_map, no_entregadas, renamed,
                                now>>

\* POST /api/apelaciones/no-apelar
api_no_apelar(codigo) ==
    LET cod == Strip(codigo)
        idx == _get_apelacion_by_codigo(apelaciones, cod)
    IN  IF cod = <<>> THEN Raise("api_no_apelar", 400)
        ELSE IF idx = 0 THEN Raise("api_no_apelar", 404)
        ELSE IF apelaciones[idx].monto_devuelto # <<>>
        THEN Raise("api_no_apelar", 400)
        ELSE /\ apelaciones' =
                  [apelaciones EXCEPT ![idx].sede_decidio_no_apelar = TRUE]
             /\ last' = LedgerOp("api_no_apelar", 200)
             /\ UNCHANGED <<procVars, storeVars, notificaciones, now>>

\* _now().strftime("%Y-%m-%d"): day 0 of the clock is 2024-05-01
DigitChars == <<"0", "1", "2", "3", "4", "5", "6", "7", "8", "9">>
strftime_ymd(day) ==
    <<"2", "0", "2", "4", "-", "0", "5", "-", "0", DigitChars[day + 2]>>

\* variant that counts the first refund only: C17 fails of it
_primer_reembolso(item) ==
    IF ListOf(item.reembolsos) = <<>> THEN 0
    ELSE item.reembolsos[1][1].monto

\* amounts are whole hundredths, on which round(x, 2) changes nothing
_total_reembolsado(item) ==
    IF item.reembolsos # <<>> THEN SumMontos(item.reembolsos[1])
    ELSE IF item.reembolsado /\ item.monto_reembolsado # <<>>
         THEN item.monto_reembolsado[1]
         ELSE 0

_calcular_perdida_antes_descuento(item) ==
    Max0(item.monto_descontado - _total_reembolsado(item))

\* the events with d.get("ejecutado", True)
Ejecutados(events) == SelectSeq(events, LAMBDA d : d.ejecutado)

_total_descuentos_sede(item) ==
    IF item.descuentos # <<>>
    THEN SumMontos(Ejecutados(item.descuentos[1]))
    ELSE IF item.descuento_confirmado
            /\ _calcular_perdida_antes_descuento(item) > 0
         THEN _calcular_perdida_antes_descuento(item)
         ELSE 0

_total_descuentos_programados(item) ==
    IF item.descuentos # <<>> THEN SumMontos(item.descuentos[1])
    ELSE IF item.descuento_confirmado
            /\ _calcular_perdida_antes_descuento(item) > 0
         THEN _calcular_perdida_antes_descuento(item)
         ELSE 0

_monto_empresa_asume(item) == item.monto_empresa_asume

\* variant that takes no refund off the loss: C18 fails of it
_perdida_bruta(item) == item.monto_descontado

_calcular_perdida(item) == _calcular_perdida_antes_descuento(item)

\* variant that starts the list anew: C26 fails of it
ReembolsosNuevos(item) == <<>>

\* the refunds list api_reembolsar appends to: the stored list, or the
\* legacy single refund turned into a list
ReembolsosDe(item) ==
    IF item.reembolsos # <<>> THEN item.reembolsos[1]
    ELSE IF item.reembolsado /\ item.monto_reembolsado # <<>>
         THEN <<[monto |-> item.monto_reembolsado[1],
                 fecha |-> Prefix(item.fecha_reembolso, 10)]>>
         ELSE <<>>

\* variant whose "mismo_valor" is the whole promised amount: C16 fails of
\* it
MontoPrometido(ap, body) ==
    IF body.mismo_valor THEN ap.monto_devuelto[1]
    ELSE IF body.monto_reembolsado = <<>> THEN 0
         ELSE body.monto_reembolsado[1]

\* the amount api_reembolsar registers
MontoReembolso(ap, body) ==
    IF body.mismo_valor
    THEN Max0(ap.monto_devuelto[1] - _total_reembolsado(ap))
    ELSE IF body.monto_reembolsado = <<>> THEN 0
         ELSE body.monto_reembolsado[1]

\* POST /api/apelaciones/reembolsar
api_reembolsar(body) ==
    LET cod == Strip(body.codigo)
        idx == _get_apelacion_by_codigo(apelaciones, cod)
    IN  IF cod = <<>> THEN Raise("api_reembolsar", 400)
        ELSE IF idx = 0 THEN Raise("api_reembolsar", 404)
        ELSE IF apelaciones[idx].monto_devuelto = <<>>
        THEN Raise("api_reembolsar", 400)
        ELSE IF MontoReembolso(apelaciones[idx], body) <= 0
        THEN Raise("api_reembolsar", 400)
        ELSE LET ap == apelaciones[idx]
                 monto == MontoReembolso(ap, body)
                 fecha == IF Prefix(Strip(body.fecha_reembolso), 10) # <<>>
                          THEN Prefix(Strip(body.fecha_reembolso), 10)
                          ELSE strftime_ymd(now)
                 reembolsos ==
                     Append(ReembolsosDe(ap),
                            [monto |-> monto, fecha |-> fecha])
                 total == SumMontos(reembolsos)
             IN  /\ Len(reembolsos) <= MaxEvents
                 /\ apelaciones' =
                       [apelaciones EXCEPT
                          ![idx].reembolsos = <<reembolsos>>,
                          ![idx].reembolsado = (total >= ap.monto_devuelto[1]),
                          ![idx].fecha_reembolso = fecha,
                          ![idx].monto_reembolsado = <<total>>]
                 /\ Notify(Strip(ap.local), "reembolso_canal", cod)
                 /\ last' = LedgerOp("api_reembolsar", 200)
                 /\ UNCHANGED <<procVars, storeVars, now>>

\* the ids of all debit events of the ledger
UsedIds(items) ==
    UNION {{d.id : d \in {ListOf(items[i].descuentos)[k] :
                            k \in 1..Len(ListOf(items[i].descuentos))}} :
           i \in 1..Len(items)}

\* str(uuid_mod.uuid4()): an id no event of the ledger (nor one of the
\* set taken) has
UuidOf(n) == <<"u", DigitChars[n + 1]>>
uuid4(items, taken) ==
    UuidOf(CHOOSE n \in 1..9 :
             /\ UuidOf(n) \notin UsedIds(items) \cup taken
             /\ \A m \in 1..(n - 1) : UuidOf(m) \in UsedIds(items) \cup taken)

\* (body.quincena or "").strip() or (_now().strftime("%Y-%m") + "-1")
QuincenaDe(body) ==
    IF Strip(body.quincena) # <<>> THEN Strip(body.quincena)
    ELSE Prefix(strftime_ymd(now), 7) \o <<"-", "1">>

\* (body.fecha or "").strip() or _now().strftime("%Y-%m-%d")
FechaDe(body) ==
    IF Strip(body.fecha) # <<>> THEN Strip(body.fecha)
    ELSE strftime_ymd(now)

\* the debit list api_confirmar_descuento appends to: the stored list, or
\* the legacy confirmed debit turned into the event of what is left
DescuentosDe(item, perdida, monto) ==
    IF item.descuentos # <<>> THEN item.descuentos[1]
    ELSE IF item.descuento_confirmado
            /\ item.fecha_descuento_confirmado # <<>>
            /\ Max0(perdida - monto) > 0
         THEN <<[id |-> uuid4(apelaciones, {}),
                 monto |-> Max0(perdida - monto),
                 quincena |-> <<>>,
                 fecha |-> Prefix(item.fecha_descuento_confirmado, 10),
                 ejecutado |-> TRUE]>>
         ELSE <<>>

\* POST /api/apelaciones/confirmar-descuento
api_confirmar_descuento(body) ==
    LET cod == Strip(body.codigo)
        idx == _get_apelacion_by_codigo(apelaciones, cod)
    IN  IF cod = <<>> THEN Raise("api_confirmar_descuento", 400)
        ELSE IF idx = 0 THEN Raise("api_confirmar_descuento", 404)
        ELSE IF _calcular_perdida(apelaciones[idx]) <= 0
        THEN Raise("api_confirmar_descuento", 400)
        ELSE IF body.monto <= 0
        THEN Raise("api_confirmar_descuento", 400)
        ELSE LET ap == apelaciones[idx]
                 perdida == _calcular_perdida(ap)
                 antes == DescuentosDe(ap, perdida, body.monto)
                 descuentos ==
                     Append(antes,
                            [id |-> uuid4(apelaciones,
                                          {d.id : d \in {antes[k] :
                                                  k \in 1..Len(antes)}}),
                             monto |-> body.monto,
                             quincena |-> QuincenaDe(body),
                             fecha |-> FechaDe(body),
                             ejecutado |-> TRUE])
                 total_eje == SumMontos(Ejecutados(descuentos))
             IN  /\ Len(descuentos) <= MaxEvents
                 /\ apelaciones' =
                       [apelaciones EXCEPT
                          ![idx].descuentos = <<descuentos>>,
                          ![idx].descuento_confirmado = (total_eje >= perdida),
                          ![idx].fecha_descuento_confirmado = FechaDe(body)]
                 /\ last' = LedgerOp("api_confirmar_descuento", 200)
                 /\ UNCHANGED <<procVars, storeVars, notificaciones, now>>

\* POST /api/apelaciones/programar-descuento
api_programar_descuento(body) ==
    LET cod == Strip(body.codigo)
        idx == _get_apelacion_by_codigo(apelaciones, cod)
    IN  IF cod = <<>> THEN Raise("api_programar_descuento", 400)
        ELSE IF idx = 0 THEN Raise("api_programar_descuento", 404)
        ELSE IF _calcular_perdida(apelaciones[idx]) <= 0
        THEN Raise("api_programar_descuento", 400)
        ELSE IF body.monto <= 0
        THEN Raise("api_programar_descuento", 400)
        ELSE LET ap == apelaciones[idx]
                 descuentos ==
                     Append(ListOf(ap.descuentos),
                            [id |-> uuid4(apelaciones, {}),
                             monto |-> body.monto,
                             quincena |-> QuincenaDe(body),
                             fecha |-> FechaDe(body),
                             ejecutado |-> FALSE])
             IN  /\ Len(descuentos) <= MaxEvents
                 /\ apelaciones' =
                       [apelaciones EXCEPT ![idx].descuentos = <<descuentos>>]
                 /\ Notify(Strip(ap.local), "descuento_programado", cod)
                 /\ last' = LedgerOp("api_programar_descuento", 200)
                 /\ UNCHANGED <<procVars, storeVars, now>>

\* variant that takes the first event whatever its id: C19 fails of it
FirstEventIndex(events, did) ==
    IF events = <<>> THEN 0 ELSE 1

\* position of the first event with this id, 0 when there is none
EventIndex(events, did) ==
    IF \E k \in 1..Len(events) : events[k].id = did
    THEN CHOOSE k \in 1..Len(events) :
           /\ events[k].id = did
           /\ \A j \in 1..(k - 1) : events[j].id # did
    ELSE 0

\* POST /api/apelaciones/ejecutar-descuento
api_ejecutar_descuento(body) ==
    LET cod == Strip(body.codigo)
        did == Strip(body.descuento_id)
        idx == _get_apelacion_by_codigo(apelaciones, cod)
        k == IF idx = 0 THEN 0
             ELSE EventIndex(ListOf(apelaciones[idx].descuentos), did)
    IN  IF cod = <<>> \/ did = <<>>
        THEN Raise("api_ejecutar_descuento", 400)
        ELSE IF k = 0 THEN Raise("api_ejecutar_descuento", 404)
        ELSE LET ap == apelaciones[idx]
                 descuentos == [ap.descuentos[1] EXCEPT ![k].ejecutado = TRUE]
                 perdida == _calcular_perdida(ap)
                 total_eje == SumMontos(Ejecutados(descuentos))
             IN  /\ apelaciones' =
                       [apelaciones EXCEPT
                          ![idx].descuentos = <<descuentos>>,
                          ![idx].descuento_confirmado = (total_eje >= perdida),
                          ![idx].fecha_descuento_confirmado =
                             strftime_ymd(now)]
                 /\ Notify(Strip(ap.local), "descuento_ejecutado", cod)
                 /\ last' = LedgerOp("api_ejecutar_descuento", 200)
                 /\ UNCHANGED <<procVars, storeVars, now>>

\* variant that leaves the debits of the site out: C23 fails of it
RestanteSinDescuentos(item) ==
    Max0(_calcular_perdida(item) - _monto_empresa_asume(item))

\* what is left to absorb: max(0.0, perdida - total_prog - monto_ya)
Restante(item) ==
    Max0(_calcular_perdida(item) - _total_descuentos_programados(item)
         - _monto_empresa_asume(item))

\* the amount api_asumir_empresa adds: the one asked for, or what is left
\* when none is
MontoAsumir(item, body) ==
    IF body.monto <= 0 THEN Restante(item) ELSE body.monto

\* POST /api/apelaciones/asumir-empresa
api_asumir_empresa(body) ==
    LET cod == Strip(body.codigo)
        idx == _get_apelacion_by_codigo(apelaciones, cod)
    IN  IF cod = <<>> THEN Raise("api_asumir_empresa", 400)
        ELSE IF idx = 0 THEN Raise("api_asumir_empresa", 404)
        ELSE IF _calcular_perdida(apelaciones[idx]) <= 0
        THEN Raise("api_asumir_empresa", 400)
        ELSE IF MontoAsumir(apelaciones[idx], body) <= 0
        THEN Raise("api_asumir_empresa", 400)
        ELSE LET ap == apelaciones[idx]
                 perdida == _calcular_perdida(ap)
                 nuevo_total ==
                     _monto_empresa_asume(ap) + MontoAsumir(ap, body)
                 item == [ap EXCEPT
                            !.monto_empresa_asume = nuevo_total,
                            !.empresa_asume = TRUE,
                            !.fecha_empresa_asume = strftime_ymd(now)]
                 total_eje == _total_descuentos_sede(item)
             IN  /\ nuevo_total <= MaxAbsorbed
                 /\ apelaciones' =
                       [apelaciones EXCEPT
                          ![idx] =
                             IF total_eje + nuevo_total >= perdida
                             THEN [item EXCEPT !.descuento_confirmado = TRUE]
                             ELSE item]
                 /\ last' = LedgerOp("api_asumir_empresa", 200)
                 /\ UNCHANGED <<procVars, storeVars, notificaciones, now>>

\* POST /api/apelaciones/deshacer-empresa-asume: an unknown code is
\* answered ok as well
api_deshacer_empresa_asume(body) ==
    LET cod == Strip(body.codigo)
        idx == _get_apelacion_by_codigo(apelaciones, cod)
    IN  IF cod = <<>> THEN Raise("api_deshacer_empresa_asume", 400)
        ELSE /\ apelaciones' =
                  IF idx = 0 THEN apelaciones
                  ELSE LET item == [apelaciones[idx] EXCEPT
                                      !.monto_empresa_asume = 0,
                                      !.empresa_asume = FALSE,
                                      !.fecha_empresa_asume = <<>>]
                       IN  [apelaciones EXCEPT
                              ![idx] =
                                 [item EXCEPT
                                    !.descuento_confirmado =
                                       (_total_descuentos_sede(item)
                                          >= _calcular_perdida(item))]]
             /\ last' = LedgerOp("api_deshacer_empresa_asume", 200)
             /\ UNCHANGED <<procVars, storeVars, notificaciones, now>>

dias_para_apelar == 5

\* variant that asks for one day more: C21 fails of it
_apelacion_plazo_pasado(item, dias) ==
    IF item.monto_devuelto # <<>> THEN FALSE
    ELSE IF item.sede_decidio_no_apelar THEN FALSE
    ELSE now - item.fecha_marcado > dias

\* the clock counts whole days, fecha_marcado is the day of the marking
_apelacion_plazo_vencido(item, dias) ==
    IF item.monto_devuelto # <<>> THEN FALSE
    ELSE IF item.sede_decidio_no_apelar THEN FALSE
    ELSE now - item.fecha_marcado >= dias

\* the "estados" GET /api/apelaciones/estado-admin gives for a record
Estados(item) ==
    LET perdida == _calcular_perdida(item)
        total_reemb == _total_reembolsado(item)
        total_descu == _total_descuentos_sede(item)
        monto_dev == IF item.monto_devuelto = <<>> THEN 0
                     ELSE item.monto_devuelto[1]
        estados ==
            (IF monto_dev > 0 /\ total_reemb >= monto_dev
             THEN <<"reembolsada">>
             ELSE IF monto_dev > 0 THEN <<"apelada">> ELSE <<>>)
            \o (IF total_descu >= perdida /\ perdida > 0
                THEN <<"descuento_confirmado">> ELSE <<>>)
            \o (IF item.sede_decidio_no_apelar
                THEN <<"sede_decidio_no_apelar">> ELSE <<>>)
    IN  IF estados # <<>> THEN estados
        ELSE IF item.monto_devuelto # <<>> THEN <<"apelada">>
        ELSE <<"pendiente_apelar">>

\* estados[-1]
Estado(item) == Estados(item)[Len(Estados(item))]

\* whether GET /api/apelaciones/descuentos lists the record; q holds the
\* query's local and its four flags, the date range is left empty
EnDescuentos(item, q) ==
    LET perdida == _calcular_perdida(item)
        total_eje == _total_descuentos_sede(item)
        total_prog == _total_descuentos_programados(item)
        monto_empresa == _monto_empresa_asume(item)
        descuentos_list == ListOf(item.descuentos)
        tiene_pendientes_ejecutar ==
            \E k \in 1..Len(descuentos_list) : ~descuentos_list[k].ejecutado
    IN  /\ perdida > 0
        /\ q.local = <<>> \/ Strip(item.local) = Strip(q.local)
        /\ \/ item.sede_decidio_no_apelar
           \/ item.monto_devuelto # <<>>
           \/ _apelacion_plazo_vencido(item, dias_para_apelar)
        /\ IF q.solo_empresa_asume THEN monto_empresa > 0
           ELSE IF q.solo_confirmados THEN total_eje + monto_empresa >= perdida
           ELSE IF q.solo_programados THEN tiene_pendientes_ejecutar
           ELSE ~(q.solo_pendientes /\ total_prog + monto_empresa >= perdida)

\* the records of the answer, by their place in the ledger
api_apelaciones_descuentos(q) ==
    {i \in 1..Len(apelaciones) : EnDescuentos(apelaciones[i], q)}

\* what GET /api/apelaciones/descuentos reports of a record it lists
DescuentosOut(item) ==
    LET perdida == _calcular_perdida(item)
        total_eje == _total_descuentos_sede(item)
        total_prog == _total_descuentos_programados(item)
        monto_empresa == _monto_empresa_asume(item)
    IN  [perdida |-> perdida,
         total_descuentos_sede |-> total_eje,
         total_programado |-> total_prog,
         monto_empresa_asume |-> monto_empresa,
         empresa_asume |-> monto_empresa > 0,
         perdida_restante |-> Max0(perdida - (total_prog + monto_empresa)),
         perdida_restante_ejecutar |->
             Max0(perdida - (total_eje + monto_empresa))]

\* what GET /api/apelaciones/estado-admin reports of a record
EstadoAdminOut(item) ==
    LET perdida == _calcular_perdida(item)
        total_descu == _total_descuentos_sede(item)
    IN  [perdida |-> perdida,
         total_reembolsado |-> _total_reembolsado(item),
         total_descuentos_sede |-> total_descu,
         perdida_restante |-> Max0(perdida - total_descu),
         estados |-> Estados(item),
         estado |-> Estado(item)]

\* what a row of the reporte maestro says of the record of its order
ReporteOut(ap) ==
    LET perdida == _calcular_perdida(ap)
        total_reemb == _total_reembolsado(ap)
        total_descu == _total_descuentos_sede(ap)
        total_prog == _total_descuentos_programados(ap)
        monto_empresa == _monto_empresa_asume(ap)
        monto_dev == IF ap.monto_devuelto = <<>> THEN 0
                     ELSE ap.monto_devuelto[1]
        estados_apel ==
            (IF monto_dev > 0 /\ total_reemb >= monto_dev
             THEN <<"reembolsada">>
             ELSE IF monto_dev > 0 THEN <<"apelada">> ELSE <<>>)
            \o (IF total_descu >= perdida /\ perdida > 0
                THEN <<"descuento_confirmado">> ELSE <<>>)
            \o (IF ap.sede_decidio_no_apelar
                THEN <<"sede_decidio_no_apelar">> ELSE <<>>)
    IN  [perdida |-> perdida,
         perdida_restante |-> Max0(perdida - total_prog - monto_empresa),
         perdida_restante_ejecutar |->
             Max0(perdida - total_descu - monto_empresa),
         descuento_confirmado |-> total_descu >= perdida /\ perdida > 0,
         estados_apelacion |->
             IF estados_apel # <<>> THEN estados_apel
             ELSE IF monto_dev > 0 THEN <<"apelada">>
             ELSE <<"pendiente_apelar">>]

\* a day goes by, while the clock is before its last day
Pasa(limit) ==
    /\ now < limit
    /\ now' = now + 1
    /\ last' = LedgerOp("tick", 200)
    /\ UNCHANGED <<procVars, storeVars, apelaciones, notificaciones>>

Tick == Pasa(MaxDay)

\* what the admin and the site send
CanalDidi == <<"D", "i", "d", "i", " ", "F", "o", "o", "d">>
Sede == <<"S", "1">>
LedgerCodigos == {Tail(Display6), Tail(Display2), <<"9", "0", "1">>}
MarcarBodies ==
    {[codigo |-> c, canal |-> CanalDidi, delivery_id |-> <<"7">>,
      monto_descontado |-> 10, local |-> l, fecha |-> D1] :
        c \in LedgerCodigos, l \in {<<>>, Sede}}
MontosDevueltos == {4, 10}
RespuestaFiles == {<<>>, <<[filename |-> <<"a">>, content |-> "p"]>>}

NextLedger ==
    \/ \E body \in MarcarBodies : api_marcar_apelacion(body)
    \/ \E c \in LedgerCodigos, m \in MontosDevueltos, files \in RespuestaFiles :
          api_apelar(c, m, D2, files)
    \/ \E c \in LedgerCodigos : api_no_apelar(c)
    \/ Tick

SpecLedger == Init /\ [][NextLedger]_vars

\* refunds, debits and absorption on the record of one order
MoneyCodigo == Tail(Display6)
MoneyCodigos == {MoneyCodigo, <<"9", "0", "1">>}
MoneyMarcar ==
    {[codigo |-> MoneyCodigo, canal |-> CanalDidi, delivery_id |-> <<"7">>,
      monto_descontado |-> 50000, local |-> <<>>, fecha |-> D1]}
MoneyDevueltos == {30000, 50000}
ReembolsarBodies ==
    {[codigo |-> c, mismo_valor |-> mv, monto_reembolsado |-> m,
      fecha_reembolso |-> <<>>] :
        c \in MoneyCodigos, mv \in BOOLEAN, m \in {<<>>, <<30000>>}}
DescuentoBodies ==
    {[codigo |-> c, monto |-> m, quincena |-> <<>>, fecha |-> <<>>] :
        c \in MoneyCodigos, m \in {0, 20000}}
EjecutarBodies ==
    {[codigo |-> c, descuento_id |-> UuidOf(n)] :
        c \in MoneyCodigos, n \in 1..(MaxEvents + 1)}
AsumirBodies ==
    {[codigo |-> c, monto |-> m] : c \in MoneyCodigos, m \in {0, 20000}}
ListQueries ==
    {[local |-> <<>>, solo_pendientes |-> p, solo_confirmados |-> c,
      solo_programados |-> g, solo_empresa_asume |-> e] :
        p \in BOOLEAN, c \in BOOLEAN, g \in BOOLEAN, e \in BOOLEAN}

NextMoney ==
    \/ \E body \in MoneyMarcar : api_marcar_apelacion(body)
    \/ \E c \in MoneyCodigos, m \in MoneyDevueltos :
          api_apelar(c, m, D2, <<>>)
    \/ \E c \in MoneyCodigos : api_no_apelar(c)
    \/ \E body \in ReembolsarBodies : api_reembolsar(body)
    \/ \E body \in DescuentoBodies : api_confirmar_descuento(body)
    \/ \E body \in DescuentoBodies : api_programar_descuento(body)
    \/ \E body \in EjecutarBodies : api_ejecutar_descuento(body)
    \/ \E body \in AsumirBodies : api_asumir_empresa(body)
    \/ \E body \in AsumirBodies : api_deshacer_empresa_asume(body)

SpecMoney == Init /\ [][NextMoney]_vars

\* the days to appeal of one order: marked, answered or declined, refunded
GateCodigo == <<"A", "1">>
GateMarcar ==
    {[codigo |-> GateCodigo, canal |-> CanalDidi, delivery_id |-> <<"7">>,
      monto_descontado |-> 10000, local |-> <<>>, fecha |-> D1]}
GateReembolsar ==
    {[codigo |-> GateCodigo, mismo_valor |-> TRUE, monto_reembolsado |-> <<>>,
      fecha_reembolso |-> <<>>]}

NextGate ==
    \/ \E body \in GateMarcar : api_marcar_apelacion(body)
    \/ \E m \in {5000, 10000} : api_apelar(GateCodigo, m, D2, <<>>)
    \/ api_no_apelar(GateCodigo)
    \/ \E body \in GateReembolsar : api_reembolsar(body)
    \/ Pasa(MaxClock)

SpecGate == Init /\ [][NextGate]_vars

\* the loss of one order shared between the site and the company
CoverageDescuentos ==
    {[codigo |-> GateCodigo, monto |-> m, quincena |-> <<>>,
      fecha |-> <<>>] : m \in {2500, 5000}}
CoverageEjecutar ==
    {[codigo |-> GateCodigo, descuento_id |-> UuidOf(n)] :
        n \in 1..(MaxEvents + 1)}
CoverageAsumir == {[codigo |-> GateCodigo, monto |-> m] : m \in {0, 2500}}

NextCoverage ==
    \/ \E body \in GateMarcar : api_marcar_apelacion(body)
    \/ api_no_apelar(GateCodigo)
    \/ \E body \in CoverageDescuentos : api_programar_descuento(body)
    \/ \E body \in CoverageEjecutar : api_ejecutar_descuento(body)
    \/ \E body \in CoverageAsumir : api_asumir_empresa(body)
    \/ \E body \in CoverageAsumir : api_deshacer_empresa_asume(body)

SpecCoverage == Init /\ [][NextCoverage]_vars

\* the records of two orders, one of them marked again with blanks around
\* its code; the money of the first one is refunded, debited and absorbed
RecordCodigos == {GateCodigo, <<"B", "2">>}
RecordMarcar ==
    {[codigo |-> c, canal |-> CanalDidi, delivery_id |-> <<"7">>,
      monto_descontado |-> 10000, local |-> <<>>, fecha |-> D1] :
        c \in RecordCodigos \cup {<<" ">> \o GateCodigo \o <<" ">>}}
RecordDescuentos ==
    {[codigo |-> GateCodigo, monto |-> 10000, quincena |-> <<>>,
      fecha |-> <<>>]}
RecordAsumir == {[codigo |-> GateCodigo, monto |-> 0]}

NextRecords ==
    \/ \E body \in RecordMarcar : api_marcar_apelacion(body)
    \/ \E c \in RecordCodigos : api_apelar(c, 5000, D2, <<>>)
    \/ \E c \in RecordCodigos : api_no_apelar(c)
    \/ \E body \in GateReembolsar : api_reembolsar(body)
    \/ \E body \in RecordDescuentos : api_confirmar_descuento(body)
    \/ \E body \in RecordDescuentos : api_programar_descuento(body)
    \/ \E body \in CoverageEjecutar : api_ejecutar_descuento(body)
    \/ \E body \in RecordAsumir : api_asumir_empresa(body)
    \/ \E body \in RecordAsumir : api_deshacer_empresa_asume(body)

SpecRecords == Init /\ [][NextRecords]_vars

\* one order marked again, with another amount, at any point of its
\* refunds, debits and absorption, beside the record of another order
RemarkMarcar ==
    {[codigo |-> GateCodigo, canal |-> CanalDidi, delivery_id |-> <<"7">>,
      monto_descontado |-> m, local |-> <<>>, fecha |-> D1] :
        m \in {10000, 20000}}
    \cup {[codigo |-> <<"B", "2">>, canal |-> <<>>, delivery_id |-> <<"8">>,
           monto_descontado |-> 10000, local |-> <<>>, fecha |-> D2]}

NextRemark ==
    \/ \E body \in RemarkMarcar : api_marcar_apelacion(body)
    \/ api_apelar(GateCodigo, 5000, D2, <<>>)
    \/ api_no_apelar(GateCodigo)
    \/ \E body \in GateReembolsar : api_reembolsar(body)
    \/ \E body \in CoverageDescuentos : api_programar_descuento(body)
    \/ \E body \in CoverageEjecutar : api_ejecutar_descuento(body)
    \/ \E body \in CoverageAsumir : api_asumir_empresa(body)
    \/ \E body \in CoverageAsumir : api_deshacer_empresa_asume(body)

SpecRemark == Init /\ [][NextRemark]_vars

\* The handlers of the ledger are plain functions, which the server runs in
\* worker threads: two requests can be between their _read_apelaciones and
\* their _write_apelaciones at once, and nothing but the file is shared.

\* the ids the requests in flight made up
IdsInFlight == {requests[t].id : t \in {u \in Threads : requests[u].pc # "idle"}}

\* api_programar_descuento in thread t up to the append to its own copy of
\* the ledger
programar_descuento_read(t, body) ==
    LET cod == Strip(body.codigo)
        idx == _get_apelacion_by_codigo(apelaciones, cod)
    IN  /\ requests[t].pc # "write"
        /\ IF cod = <<>> THEN Raise("api_programar_descuento", 400)
           ELSE IF idx = 0 THEN Raise("api_programar_descuento", 404)
           ELSE IF _calcular_perdida(apelaciones[idx]) <= 0
           THEN Raise("api_programar_descuento", 400)
           ELSE IF body.monto <= 0
           THEN Raise("api_programar_descuento", 400)
           ELSE LET ap == apelaciones[idx]
                    id == uuid4(apelaciones, IdsInFlight)
                    descuentos ==
                        Append(ListOf(ap.descuentos),
                               [id |-> id,
                                monto |-> body.monto,
                                quincena |-> QuincenaDe(body),
                                fecha |-> FechaDe(body),
                                ejecutado |-> FALSE])
                IN  /\ Len(descuentos) <= MaxEvents
                    /\ requests' =
                          [requests EXCEPT
                             ![t] = [pc |-> "write",
                                     data |-> [apelaciones EXCEPT
                                                 ![idx].descuentos =
                                                    <<descuentos>>],
                                     id |-> id,
                                     local |-> Strip(ap.local),
                                     cod |-> cod]]
                    /\ last' = LedgerOp("_read_apelaciones", 0)
                    /\ UNCHANGED <<storeVars, ledgerVars, scheduler>>

\* the rest of it: _write_apelaciones(data), the notification, the answer
programar_descuento_write(t) ==
    /\ requests[t].pc = "write"
    /\ apelaciones' = requests[t].data
    /\ Notify(requests[t].local, "descuento_programado", requests[t].cod)
    /\ requests' = [requests EXCEPT
                      ![t] = [pc |-> "done", id |-> requests[t].id]]
    /\ last' = LedgerOp("api_programar_descuento", 200)
    /\ UNCHANGED <<storeVars, now, scheduler>>

ConcurrentDescuentos ==
    {[codigo |-> c, monto |-> 5000, quincena |-> <<>>, fecha |-> <<>>] :
        c \in RecordCodigos}

NextConcurrent ==
    \/ \E body \in RecordMarcar : api_marcar_apelacion(body)
    \/ \E t \in Threads, body \in ConcurrentDescuentos :
          programar_descuento_read(t, body)
    \/ \E t \in Threads : programar_descuento_write(t)

SpecConcurrent == Init /\ [][NextConcurrent]_vars

----------------------------------------------------------------------------
(* The poller of orders, site by site *)

\* the sites of locales.json, in the order the iteration takes them
local_ids == <<"12", "13">>

\* rows of a page of obtenerDeliverysPorLocalSimple: 50 in the program, 1
\* here, so that an answer of two rows takes two pages
page_size == 1

\* variant whose failed request raises: C28 fails of it
_fetch_deliverys_raising(rows, fail_at) ==
    [data |-> <<>>, raised |-> fail_at # 0]

\* what _fetch_deliverys_for_local returns when the upstream holds these
\* rows and the request of page fail_at fails (0: none does): the rows of
\* the pages before it, and no exception
_fetch_deliverys_for_local(rows, fail_at) ==
    [data |-> IF fail_at = 0 \/ (fail_at - 1) * page_size >= Len(rows)
              THEN rows
              ELSE SubSeq(rows, 1, (fail_at - 1) * page_size),
     raised |-> FALSE]

\* the iteration starts: status "calling_deliverys"
scheduler_begin ==
    /\ scheduler.task = "running"
    /\ scheduler.pos = 0
    /\ scheduler.runs < MaxRuns
    /\ scheduler' = [scheduler EXCEPT !.status = "calling_deliverys",
                                      !.last_error = FALSE,
                                      !.pos = 1,
                                      !.failed = {},
                                      !.saved = {}]
    /\ last' = [NoOp EXCEPT !.op = "scheduler_begin"]
    /\ UNCHANGED <<storeVars, ledgerVars, requests>>

\* closed, or nobody logged in: the iteration is put off
scheduler_skip ==
    /\ scheduler.task = "running"
    /\ scheduler.pos = 0
    /\ scheduler.runs < MaxRuns
    /\ scheduler' = [scheduler EXCEPT !.runs = @ + 1]
    /\ last' = [NoOp EXCEPT !.op = "scheduler_skip"]
    /\ UNCHANGED <<storeVars, ledgerVars, requests>>

\* one turn of the loop over local_ids: fetch, save; an exception ends the
\* iteration in the except clause
scheduler_site(rows, fail_at) ==
    /\ scheduler.task = "running"
    /\ scheduler.pos \in 1..Len(local_ids)
    /\ LET local_id == local_ids[scheduler.pos]
           r == _fetch_deliverys_for_local(rows, fail_at)
       IN  IF r.raised
           THEN /\ scheduler' = [scheduler EXCEPT
                                   !.status = "deliverys_ready",
                                   !.last_error = TRUE,
                                   !.pos = 0,
                                   !.failed = @ \cup {local_id},
                                   !.runs = @ + 1]
                /\ last' = [NoOp EXCEPT !.op = "scheduler_error"]
                /\ UNCHANGED <<storeVars, ledgerVars, requests>>
           ELSE /\ deliverys' = _save_deliverys_for_local(deliverys, local_id,
                                                         r.data, Hoy)
                /\ \A d \in Dates : Len(deliverys'[local_id][d]) <= MaxRows
                /\ renamed' = StillRenamed(renamed, deliverys')
                /\ scheduler' = [scheduler EXCEPT
                                   !.pos = @ + 1,
                                   !.failed = IF fail_at # 0
                                              THEN @ \cup {local_id} ELSE @,
                                   !.saved = @ \cup {local_id}]
                /\ last' = [op |-> "scheduler_save", local |-> local_id,
                            date |-> Hoy, data |-> r.data, changed |-> {}]
                /\ UNCHANGED <<didi_map, uploads, no_entregadas, ledgerVars,
                               requests>>

\* after the last site: the rename of the UTC day, status
\* "deliverys_ready", next_run_at
scheduler_finish(fecha_utc, order) ==
    /\ scheduler.task = "running"
    /\ scheduler.pos = Len(local_ids) + 1
    /\ Reconcile("scheduler_finish", didi_map[fecha_utc], fecha_utc, order)
    /\ scheduler' = [scheduler EXCEPT !.status = "deliverys_ready",
                                      !.last_error = FALSE,
                                      !.pos = 0,
                                      !.runs = @ + 1]
    /\ UNCHANGED <<didi_map, no_entregadas, ledgerVars, requests>>

\* orders in which DELIVERYS_CACHE_DIR.iterdir() may list the two sites
SchedulerOrders == {local_ids, <<local_ids[2], local_ids[1]>>}
SchedulerBatches == {<<RowDidi>>, <<RowRappi>>, <<RowDidi, RowRappi>>}

NextScheduler ==
    \/ scheduler_begin
    \/ scheduler_skip
    \/ \E rows \in SchedulerBatches, fail_at \in 0..2 :
          scheduler_site(rows, fail_at)
    \/ \E d \in Dates, o \in SchedulerOrders : scheduler_finish(d, o)
    \/ \E o \in SchedulerOrders :
          daily_orders_payload(<<DidiOrder(LongId, Display6)>>, Hoy, o)

InitScheduler == InitWith({local_ids[i] : i \in 1..Len(local_ids)})

SpecScheduler == InitScheduler /\ [][NextScheduler]_vars

\* lifespan after its yield: deliverys_task.cancel(), then await
\* deliverys_task. CancelledError is raised inside the coroutine at the
\* await it is suspended in (asyncio.sleep, client.get, the exit of the
\* async with); it is no Exception, so neither except clause of the
\* poller catches it and the coroutine ends there.
lifespan_shutdown ==
    /\ scheduler.task = "running"
    /\ scheduler' = [scheduler EXCEPT !.task = "cancelled"]
    /\ last' = [NoOp EXCEPT !.op = "lifespan_shutdown"]
    /\ UNCHANGED <<storeVars, ledgerVars, requests>>

NextShutdown == NextScheduler \/ lifespan_shutdown

SpecShutdown == InitScheduler /\ [][NextShutdown]_vars

----------------------------------------------------------------------------
(* The reports: folds over the order files and the ledger *)

\* str <= str, on the characters dates are made of
CharRank(ch) ==
    IF ch = "-" THEN 0 ELSE CHOOSE k \in 1..Len(DigitChars) : DigitChars[k] = ch

RECURSIVE StrLeq(_, _)
StrLeq(a, b) ==
    IF a = <<>> THEN TRUE
    ELSE IF b = <<>> THEN FALSE
    ELSE IF Head(a) = Head(b) THEN StrLeq(Tail(a), Tail(b))
    ELSE CharRank(Head(a)) < CharRank(Head(b))

RECURSIVE Sum(_)
Sum(nums) == IF nums = <<>> THEN 0 ELSE Head(nums) + Sum(Tail(nums))

\* order["Codigo integracion"] of _delivery_row_to_order, <<>> for the
\* placeholder of a row without code
CodigoIntegracion(row) ==
    LET c == Strip(row.delivery_codigolimadelivery)
    IN  IF _normalize_didi_display_num(c) # <<>>
        THEN _normalize_didi_display_num(c) ELSE c

\* the rows the reports count: those with a code, of the files of the range
OrdenesEnRango(dl, desde, hasta) ==
    {o \in (DOMAIN dl) \X Dates \X (1..MaxRows) :
        /\ StrLeq(desde, o[2]) /\ StrLeq(o[2], hasta)
        /\ o[3] <= Len(dl[o[1]][o[2]])
        /\ CodigoIntegracion(dl[o[1]][o[2]][o[3]]) # <<>>}

\* the filters `if fecha_desde` and `if fecha_hasta` of the ledger queries
EnFechas(item, desde, hasta) ==
    /\ desde = <<>> \/ StrLeq(desde, item.fecha)
    /\ hasta = <<>> \/ StrLeq(item.fecha, hasta)

Devuelto(i) == IF i.monto_devuelto = <<>> THEN 0 ELSE i.monto_devuelto[1]

Cuenta(items, Test(_)) == Len(SelectSeq(items, Test))

\* round(aps / ords * 100, 1) if ords else 0.0, in tenths of a percent and
\* rounded down
Pct(aps, ords) == IF ords # 0 THEN (aps * 1000) \div ords ELSE 0

\* "resumen" of GET /api/informes
Resumen(dl, items, desde, hasta) ==
    LET total_ordenes == Cardinality(OrdenesEnRango(dl, desde, hasta))
        items_ap ==
            SelectSeq(items, LAMBDA i : /\ StrLeq(desde, i.fecha)
                                        /\ StrLeq(i.fecha, hasta))
        n == Len(items_ap)
        is_apelada(i) == i.fecha_apelado # <<>> /\ ~i.sede_decidio_no_apelar
        pendiente(i) ==
            Devuelto(i) > 0 /\ _total_reembolsado(i) < Devuelto(i)
    IN  [total_ordenes |-> total_ordenes,
         ordenes_con_apelacion |-> n,
         ordenes_sin_apelacion |-> total_ordenes - n,
         pct_con_problemas |-> Pct(n, total_ordenes),
         sin_apelar |->
             Cuenta(items_ap, LAMBDA i : /\ ~is_apelada(i)
                                         /\ ~i.sede_decidio_no_apelar),
         apeladas |-> Cuenta(items_ap, is_apelada),
         sede_no_apelar |->
             Cuenta(items_ap, LAMBDA i : i.sede_decidio_no_apelar),
         total_descontado_canal |->
             Sum([k \in 1..n |-> items_ap[k].monto_descontado]),
         total_devuelto |-> Sum([k \in 1..n |-> Devuelto(items_ap[k])]),
         total_reembolsos |->
             Cuenta(items_ap, LAMBDA i :
                 Devuelto(i) > 0 /\ _total_reembolsado(i) >= Devuelto(i)),
         pendiente_reembolso |-> Cuenta(items_ap, pendiente),
         monto_pendiente_reembolso |->
             Sum([k \in 1..n |->
                    IF pendiente(items_ap[k])
                    THEN Devuelto(items_ap[k])
                         - _total_reembolsado(items_ap[k])
                    ELSE 0]),
         total_descuentos_sede |->
             Sum([k \in 1..n |-> _total_descuentos_sede(items_ap[k])]),
         monto_pendiente_descuento |->
             Sum([k \in 1..n |-> _calcular_perdida(items_ap[k])]),
         empresa_asume |->
             Sum([k \in 1..n |-> _monto_empresa_asume(items_ap[k])]),
         total_perdida |->
             Sum([k \in 1..n |-> items_ap[k].monto_descontado])
             - Sum([k \in 1..n |-> Devuelto(items_ap[k])])]

\* rows_list of _build_reporte_rows, before the sort: one row for each order
\* counted, with the record of its code when the ledger has one
ReporteRows(dl, items, desde, hasta) ==
    {[local |-> o[1], fecha |-> o[2],
      codigo |-> CodigoIntegracion(dl[o[1]][o[2]][o[3]]),
      apelacion |->
          LET cod == CodigoIntegracion(dl[o[1]][o[2]][o[3]])
              ks == {k \in 1..Len(items) : Strip(items[k].codigo) = cod}
          IN  IF ks = {} THEN <<>>
              ELSE <<ReporteOut(items[CHOOSE k \in ks :
                                        \A j \in ks : j <= k])>>] :
        o \in OrdenesEnRango(dl, desde, hasta)}

\* the answer of each query; the filter by site is left empty
Informe(dl, items, desde, hasta) ==
    [resumen |-> Resumen(dl, items, desde, hasta)]

ReporteMaestro(dl, items, desde, hasta) ==
    [rows |-> ReporteRows(dl, items, desde, hasta),
     totalRecords |-> Cardinality(ReporteRows(dl, items, desde, hasta))]

ApelacionesReporte(items, desde, hasta) ==
    LET its == SelectSeq(items, LAMBDA i : EnFechas(i, desde, hasta))
        total_descontado ==
            Sum([k \in 1..Len(its) |-> its[k].monto_descontado])
        total_devuelto == Sum([k \in 1..Len(its) |-> Devuelto(its[k])])
    IN  [total_descontado |-> total_descontado,
         total_devuelto |-> total_devuelto,
         total_perdido |-> total_descontado - total_devuelto,
         items |-> its]

EstadoAdmin(items, desde, hasta) ==
    LET its == SelectSeq(items, LAMBDA i : EnFechas(i, desde, hasta))
    IN  [items |-> [k \in 1..Len(its) |-> EstadoAdminOut(its[k])]]

Descuentos(items, q) ==
    LET its == SelectSeq(items, LAMBDA i : EnDescuentos(i, q))
    IN  [items |-> [k \in 1..Len(its) |-> DescuentosOut(its[k])]]

ReembolsosPendientes(items, desde, hasta) ==
    LET its ==
            SelectSeq(items, LAMBDA i :
                /\ i.monto_devuelto # <<>>
                /\ _total_reembolsado(i) < Devuelto(i)
                /\ EnFechas(i, desde, hasta))
    IN  [items |->
             [k \in 1..Len(its) |->
                 [codigo |-> its[k].codigo,
                  total_reembolsado |-> _total_reembolsado(its[k]),
                  reembolsos |-> ListOf(its[k].reembolsos)]]]

\* variant that keeps a record pending when its days to appeal are over:
\* C38 fails of it
PendienteSinPlazo(ap) ==
    /\ ap.monto_devuelto = <<>>
    /\ ~ap.descuento_confirmado
    /\ ~ap.sede_decidio_no_apelar

\* the tests GET /api/apelaciones/pendientes makes on the record of an
\* order
Pendiente(ap) ==
    /\ ap.monto_devuelto = <<>>
    /\ ~ap.descuento_confirmado
    /\ ~ap.sede_decidio_no_apelar
    /\ ~_apelacion_plazo_vencido(ap, dias_para_apelar)

\* the records of the orders GET /api/apelaciones/pendientes answers with,
\* by their place in the ledger: the orders of the file of the site and
\* the date whose code has a record that is pending
api_apelaciones_pendientes(dl, items, local_id, date_str) ==
    {_get_apelacion_by_codigo(items, CodigoIntegracion(dl[local_id][date_str][k])) :
        k \in {j \in 1..Len(dl[local_id][date_str]) :
                 LET idx == _get_apelacion_by_codigo(
                                items,
                                CodigoIntegracion(dl[local_id][date_str][j]))
                 IN  idx # 0 /\ Pendiente(items[idx])}}

\* a GET that answers: the files are read and nothing is written
Answer(opname, result) ==
    /\ last' = [LedgerOp(opname, 200) EXCEPT !.data = result]
    /\ UNCHANGED <<procVars, storeVars, ledgerVars>>

\* GET /api/informes
api_informes(fecha_desde, fecha_hasta) ==
    LET desde == Prefix(Strip(fecha_desde), 10)
        hasta == Prefix(Strip(fecha_hasta), 10)
    IN  IF desde = <<>> \/ hasta = <<>> THEN Raise("api_informes", 400)
        ELSE Answer("api_informes",
                    Informe(deliverys, apelaciones, desde, hasta))

\* GET /api/reporte-maestro
api_reporte_maestro(fecha_desde, fecha_hasta) ==
    LET desde == Prefix(Strip(fecha_desde), 10)
        hasta == Prefix(Strip(fecha_hasta), 10)
    IN  IF desde = <<>> \/ hasta = <<>>
        THEN Raise("api_reporte_maestro", 400)
        ELSE Answer("api_reporte_maestro",
                    ReporteMaestro(deliverys, apelaciones, desde, hasta))

\* GET /api/apelaciones/reporte
api_apelaciones_reporte(fecha_desde, fecha_hasta) ==
    Answer("api_apelaciones_reporte",
           ApelacionesReporte(apelaciones, fecha_desde, fecha_hasta))

\* GET /api/apelaciones/estado-admin
api_apelaciones_estado_admin(fecha_desde, fecha_hasta) ==
    Answer("api_apelaciones_estado_admin",
           EstadoAdmin(apelaciones, fecha_desde, fecha_hasta))

\* GET /api/apelaciones/descuentos, with the records it lists
api_descuentos(q) ==
    Answer("api_apelaciones_descuentos", Descuentos(apelaciones, q))

\* GET /api/apelaciones/reembolsos-pendientes
api_reembolsos_pendientes(fecha_desde, fecha_hasta) ==
    Answer("api_reembolsos_pendientes",
           ReembolsosPendientes(apelaciones, fecha_desde, fecha_hasta))

\* the orders of one site and the records of two codes, one of them the
\* code of a stored order, with the queries in between
QueryDates == {<<>>, D1, D2}
ReportBatches == {<<RowDidi>>, <<RowNoId>>, <<RowDidi, RowRappi>>}
ReportMarcar ==
    GateMarcar \cup {[b EXCEPT !.codigo = LongId] : b \in GateMarcar}

NextReports ==
    \/ \E l \in Locals, data \in ReportBatches : SaveDeliverys(l, data, Hoy)
    \/ \E body \in ReportMarcar : api_marcar_apelacion(body)
    \/ \E m \in {0, 5000} : api_apelar(GateCodigo, m, D2, <<>>)
    \/ api_no_apelar(GateCodigo)
    \/ \E body \in GateReembolsar : api_reembolsar(body)
    \/ \E fd \in QueryDates, fh \in QueryDates : api_informes(fd, fh)
    \/ \E fd \in QueryDates, fh \in QueryDates : api_reporte_maestro(fd, fh)
    \/ \E fd \in QueryDates, fh \in QueryDates :
          api_apelaciones_reporte(fd, fh)
    \/ \E fd \in QueryDates, fh \in QueryDates :
          api_apelaciones_estado_admin(fd, fh)
    \/ \E q \in ListQueries : api_descuentos(q)
    \/ \E fd \in QueryDates, fh \in QueryDates :
          api_reembolsos_pendientes(fd, fh)

SpecReports == Init /\ [][NextReports]_vars

\* a stored order whose code is marked, answered, declined, absorbed or
\* left alone while the days go by
PendingMarcar == {[b EXCEPT !.codigo = LongId] : b \in GateMarcar}

NextPending ==
    \/ \E l \in Locals, data \in {<<RowDidi>>, <<RowNoId>>} :
          SaveDeliverys(l, data, Hoy)
    \/ \E body \in PendingMarcar : api_marcar_apelacion(body)
    \/ api_apelar(LongId, 5000, D2, <<>>)
    \/ api_no_apelar(LongId)
    \/ api_asumir_empresa([codigo |-> LongId, monto |-> 0])
    \/ Pasa(MaxClock)

SpecPending == Init /\ [][NextPending]_vars

----------------------------------------------------------------------------
(* Consolidation of the photo folders: POST /api/admin/organize-foto-refs *)

\* the em dash _delivery_row_to_order puts for a missing value: one
\* character that is neither alphanumeric nor one of "._-"
Raya == <<"--">>

\* (o.get("delivery_identificadorunico") or "").strip(); a row without the
\* key gives ""
IdentificadorUnico(row) ==
    IF "delivery_identificadorunico" \in DOMAIN row
    THEN Strip(row.delivery_identificadorunico) ELSE <<>>

\* can = _sanitize_codigo(o["Codigo integracion"]), the dash included
CanonFolder(row) ==
    _sanitize_codigo(IF CodigoIntegracion(row) = <<>> THEN Raya
                     ELSE CodigoIntegracion(row))

\* alt = _sanitize_codigo(ident), <<>> for no identifier
AltFolder(row) ==
    LET ident == IdentificadorUnico(row)
    IN  IF ident # <<>> /\ ident # Raya THEN _sanitize_codigo(ident)
        ELSE <<>>

\* the loop over the rows of one file: alt_to_canon[alt] = can
RECURSIVE ScanRows(_, _, _)
ScanRows(data, i, acc) ==
    IF i > Len(data) THEN acc
    ELSE LET alt == AltFolder(data[i])
             can == CanonFolder(data[i])
         IN  ScanRows(data, i + 1,
                      IF alt # <<>> /\ alt # can THEN DictSet(acc, alt, can)
                      ELSE acc)

\* orders in which iterdir() and glob("*.json") may list the files
FileOrders ==
    LET files == Locals \X Dates
    IN  {o \in [1..Cardinality(files) -> files] :
            \A i, j \in 1..Cardinality(files) : o[i] = o[j] => i = j}

\* the loop over the files of the order store
RECURSIVE ScanFiles(_, _, _, _)
ScanFiles(dl, order, i, acc) ==
    IF i > Len(order) THEN acc
    ELSE ScanFiles(dl, order, i + 1,
                   ScanRows(dl[order[i][1]][order[i][2]], 1, acc))

\* dst exists: shutil.copy2 of the files of entrega/ and of
\* apelacion/{canal}/ over what is at the destination, then rmtree(src)
MergeFolders(up, src, dst) ==
    LET copied == {[f EXCEPT !.folder = dst] :
                     f \in {g \in up :
                              /\ g.folder = src
                              /\ \/ g.sub = "entrega" /\ Len(g.rel) = 1
                                 \/ g.sub = "apelacion" /\ Len(g.rel) = 2}}
    IN  {f \in up : /\ f.folder # src
                    /\ ~ \E c \in copied : /\ c.folder = f.folder
                                           /\ c.sub = f.sub
                                           /\ c.rel = f.rel}
            \cup copied

\* dst missing: shutil.copytree(src, dst), then rmtree(src)
MoveFolder(up, src, dst) ==
    {f \in up : f.folder # src}
        \cup {[f EXCEPT !.folder = dst] : f \in {g \in up : g.folder = src}}

\* the loop over alt_to_canon.items(): acc = [up, moved]
RECURSIVE OrganizeFolders(_, _, _)
OrganizeFolders(acc, alt_to_canon, i) ==
    IF i > Len(alt_to_canon) THEN acc
    ELSE LET src == alt_to_canon[i].key
             dst == alt_to_canon[i].val
         IN  IF ~ FolderExists(acc.up, src)
             THEN OrganizeFolders(acc, alt_to_canon, i + 1)
             ELSE IF ~ FolderExists(acc.up, dst)
             THEN OrganizeFolders(
                    [up |-> MoveFolder(acc.up, src, dst),
                     moved |-> Append(acc.moved,
                                      [from |-> src, to |-> dst,
                                       merged |-> FALSE])],
                    alt_to_canon, i + 1)
             ELSE OrganizeFolders(
                    [up |-> MergeFolders(acc.up, src, dst),
                     moved |-> Append(acc.moved,
                                      [from |-> src, to |-> dst,
                                       merged |-> TRUE])],
                    alt_to_canon, i + 1)

_organize_foto_refs(dl, up, order) ==
    OrganizeFolders([up |-> up, moved |-> <<>>],
                    ScanFiles(dl, order, 1, <<>>), 1)

api_organize_foto_refs ==
    \E order \in FileOrders :
       LET result == _organize_foto_refs(deliverys, uploads, order)
       IN  /\ uploads' = result.up
           /\ last' = [op |-> "api_organize_foto_refs", local |-> "",
                       date |-> <<>>, data |-> result.moved,
                       changed |-> {}]
           /\ UNCHANGED <<procVars, deliverys, didi_map, no_entregadas,
                          ledgerVars, renamed>>

\* an order the API gives with its identifier besides its code, and the
\* codes the cashier may upload its photos under
Ident == <<"X", "1">>
RowIdent ==
    [delivery_id |-> <<"7">>, delivery_fecha |-> D1 \o Hora,
     delivery_codigolimadelivery |-> LongId,
     canaldelivery_descripcion |-> DidiFood, delivery_importe |-> "25000",
     delivery_identificadorunico |-> Ident]
OrganizeBatches == {<<RowIdent>>, <<RowDidi>>}
OrganizeCodigos == {LongId, Ident}

NextOrganize ==
    \/ \E l \in Locals, data \in OrganizeBatches : SaveDeliverys(l, data, Hoy)
    \/ \E codigo \in OrganizeCodigos, group \in UploadGroups,
          canal \in UploadCanales, files \in UploadFiles :
          api_upload_fotos(codigo, group, canal, files)
    \/ api_organize_foto_refs

SpecOrganize == Init /\ [][NextOrganize]_vars

----------------------------------------------------------------------------
(* Properties of the Order Store and of the reconciliation *)

RenameOps == {"daily_orders_payload", "merge_now"}

StoredIds(data) == {DeliveryId(data[i]) : i \in 1..Len(data)} \ {<<>>}

BatchIds(data) == {Strip(data[i].delivery_id) : i \in 1..Len(data)} \ {<<>>}

\* the rows of the last batch that the merge takes into the file of date d
MergedInto(d) ==
    {i \in 1..Len(last.data) :
        /\ FechaDay(last.data[i].delivery_fecha) = d
        /\ d \in SavedFiles(last.data, last.date)}

NonEmptyFields(r) ==
    {f \in {"delivery_id", "delivery_fecha", "delivery_codigolimadelivery"} :
        r[f] # <<>>}
    \cup {f \in {"canaldelivery_descripcion", "delivery_importe"} : r[f] # ""}

\* a short display code as the store documents it: 4 to 10 digits,
\* optionally prefixed with '#'
IsShortDisplayCode(c) ==
    LET t == IF c # <<>> /\ Head(c) = "#" THEN Tail(c) ELSE c
    IN  IsDigit(t) /\ 4 <= Len(t) /\ Len(t) <= 10

Count(seq, x) == Cardinality({i \in 1..Len(seq) : seq[i] = x})

\* the same records, whatever their order in the file
SameRecords(s, t) ==
    /\ Len(s) = Len(t)
    /\ \A i \in 1..Len(s) : Count(s, s[i]) = Count(t, s[i])

\* no stable code of the map is itself a key of the map
NoChain(dmap) ==
    \A k \in DOMAIN dmap :
        _normalize_didi_display_num(Strip(dmap[k])) \notin DOMAIN dmap

\* C1: no step (merge with or without consultation date, rename) removes a
\* delivery_id from the partition it was stored in.
C1_MergeNeverDeletes ==
    [][\A l \in Locals, d \in Dates :
          StoredIds(deliverys[l][d]) \subseteq StoredIds(deliverys'[l][d])]_vars

\* a merge has run on a partition that has been through a rename and that
\* holds an order the batch did not mention
C1_Witness ==
    /\ last.op = "save"
    /\ BatchIds(last.data) # {}
    /\ renamed # {}
    /\ \E d \in Dates :
          /\ MergedInto(d) # {}
          /\ StoredIds(deliverys[last.local][d]) \ BatchIds(last.data) # {}

\* C2: a field that holds a non-empty value in a stored record still holds
\* a non-empty value after any merge.
C2_MergeMonotone ==
    [][last'.op = "save" =>
         \A l \in Locals, d \in Dates :
            \A did \in StoredIds(deliverys[l][d]) :
               HasId(deliverys'[l][d], did) =>
                  NonEmptyFields(RowOf(deliverys[l][d], did))
                     \subseteq NonEmptyFields(RowOf(deliverys'[l][d], did))]_vars

\* C3 as stated: merging the batch that was just merged once more leaves
\* the stored records as they are, for every batch.
C3_IdempotentAnyBatch ==
    last.op = "save" =>
       _save_deliverys_for_local(deliverys, last.local, last.data, last.date)
          = deliverys

\* C3 amended: merging the batch that was just merged once more leaves the
\* stored records as they are, when every record of the batch has a
\* delivery_id.
C3_IdempotentWithIds ==
    (last.op = "save" /\ \A i \in 1..Len(last.data) :
                            Strip(last.data[i].delivery_id) # <<>>) =>
       _save_deliverys_for_local(deliverys, last.local, last.data, last.date)
          = deliverys

\* a batch of records with ids, one of them twice, has been merged
C3_Witness ==
    /\ last.op = "save"
    /\ Len(last.data) = 2
    /\ \A i \in 1..Len(last.data) : Strip(last.data[i].delivery_id) # <<>>
    /\ \E d \in Dates :
          /\ MergedInto(d) = {1, 2}
          /\ BatchIds(last.data) \subseteq StoredIds(deliverys[last.local][d])
          /\ Cardinality(BatchIds(last.data)) = 1

\* C4: a stored short display code survives the merge of a record with the
\* same delivery_id that carries a long volatile id.
C4_StableCodeProtected ==
    [][last'.op = "save" =>
         \A d \in Dates :
            \A i \in 1..Len(last'.data) :
               LET row == last'.data[i]
                   l == last'.local
                   did == Strip(row.delivery_id)
               IN  (/\ FechaDay(row.delivery_fecha) = d
                    /\ d \in SavedFiles(last'.data, last'.date)
                    /\ did # <<>>
                    /\ HasId(deliverys[l][d], did)
                    /\ IsShortDisplayCode(
                          RowOf(deliverys[l][d], did).delivery_codigolimadelivery)
                    /\ ~ IsShortDisplayCode(row.delivery_codigolimadelivery))
                   => /\ HasId(deliverys'[l][d], did)
                      /\ RowOf(deliverys'[l][d], did).delivery_codigolimadelivery
                           = RowOf(deliverys[l][d], did).delivery_codigolimadelivery]_vars

\* a batch with the long id has been merged onto a record that holds the
\* short display code
C4_Witness ==
    /\ last.op = "save"
    /\ \E d \in Dates :
          \E i \in MergedInto(d) :
             /\ last.data[i].delivery_codigolimadelivery = LongId
             /\ HasId(deliverys[last.local][d], Strip(last.data[i].delivery_id))
             /\ RowOf(deliverys[last.local][d],
                      Strip(last.data[i].delivery_id)).delivery_codigolimadelivery
                  = Tail(Display6)

\* C5: a record whose code the rename has rewritten to the stable code of
\* the map keeps that code when a merge brings the old volatile id back.
C5_NoRegressionAfterRename ==
    [][last'.op = "save" =>
         \A e \in renamed :
            \A i \in 1..Len(last'.data) :
               (/\ last'.local = e.local
                /\ FechaDay(last'.data[i].delivery_fecha) = e.date
                /\ e.date \in SavedFiles(last'.data, last'.date)
                /\ Strip(last'.data[i].delivery_id) = e.did
                /\ Strip(last'.data[i].delivery_codigolimadelivery) = e.old)
               => /\ HasId(deliverys'[e.local][e.date], e.did)
                  /\ RowOf(deliverys'[e.local][e.date],
                           e.did).delivery_codigolimadelivery = e.new]_vars

\* the result of the rename run once more on the present state
CrossAgain(o) ==
    _cross_didi_map_and_update_orders(
        deliverys, uploads,
        _build_restaurant_map_for_date(deliverys, last.date),
        didi_map[last.date], o, last.date)

\* C6 as stated: a second application of the rename right after the first
\* rewrites nothing, for every map.
C6_RenameIdempotentAnyMap ==
    last.op \in RenameOps =>
       \A o \in LocalOrders :
          CrossAgain(o).dl = deliverys /\ CrossAgain(o).changed = {}

\* C6 amended: a second application of the rename right after the first
\* rewrites nothing, when no stable code of the map is itself a key of it.
C6_RenameIdempotentNoChain ==
    (last.op \in RenameOps /\ NoChain(didi_map[last.date])) =>
       \A o \in LocalOrders :
          CrossAgain(o).dl = deliverys /\ CrossAgain(o).changed = {}

\* a rename with such a map has rewritten a partition file
C6_Witness ==
    /\ last.op \in RenameOps
    /\ NoChain(didi_map[last.date])
    /\ last.changed # {}

\* C7: the rename rewrites the code of a record exactly when the code is a
\* key of the map and the record's channel is Didi Food.
C7_RenameScope ==
    [][last'.op \in RenameOps =>
         \A l \in Locals :
            \A i \in 1..Len(deliverys[l][last'.date]) :
               LET row == deliverys[l][last'.date][i]
                   after == deliverys'[l][last'.date][i]
               IN  (after.delivery_codigolimadelivery
                       # row.delivery_codigolimadelivery)
                   <=> (/\ Strip(row.delivery_codigolimadelivery)
                              \in DOMAIN didi_map'[last'.date]
                        /\ row.canaldelivery_descripcion = DidiFood)]_vars

\* the files of the local of the last merge after merging A and then the
\* batch of the last merge, from the state before it
MergedBefore(A) ==
    LET first == CHOOSE m \in {_save_deliverys_for_local(
                                  deliverys, last'.local, A, last'.date)} : TRUE
    IN  _save_deliverys_for_local(first, last'.local, last'.data,
                                  last'.date)[last'.local]

\* the same after merging A now, when the batch of the last merge is in
MergedAfter(A) ==
    _save_deliverys_for_local(deliverys', last'.local, A,
                              last'.date)[last'.local]

\* C8 as stated: merging batch A then the batch just merged gives the same
\* files as merging them in the other order, for every A.
C8_CommutativeAnyBatches ==
    [][last'.op = "save" =>
         \A A \in Batches : MergedBefore(A) = MergedAfter(A)]_vars

\* C8 amended: two batches that share no delivery_id leave the same records
\* in every partition file in either order; the order of the records in the
\* file may differ.
C8_CommutativeDisjointIds ==
    [][last'.op = "save" =>
         \A A \in {B \in Batches : BatchIds(B) \cap BatchIds(last'.data) = {}} :
            \A x \in {MergedBefore(A)}, y \in {MergedAfter(A)} :
               \A d \in Dates : SameRecords(x[d], y[d])]_vars

\* a batch has been merged into a file that holds the record of another
\* batch with another delivery_id
C8_Witness ==
    /\ last.op = "save"
    /\ Len(last.data) = 1
    /\ \E d \in Dates :
          /\ MergedInto(d) = {1}
          /\ Cardinality(StoredIds(deliverys[last.local][d])) = 2
          /\ BatchIds(last.data) # {}

----------------------------------------------------------------------------
(* Properties of the photo folders *)

\* the pairs (stored code, stable code) of the rows a rename rewrites
RenamedCodes(dl, dmap, date_str) ==
    {[old |-> Strip(dl[l][date_str][i].delivery_codigolimadelivery),
      new |-> DisplayNumFor(dl[l][date_str][i], dmap)] :
        <<l, i>> \in {p \in Locals \X (1..MaxRows + 1) :
                        /\ p[2] <= Len(dl[p[1]][date_str])
                        /\ _build_restaurant_map_for_date(dl, date_str)[p[1]]
                              # <<>>
                        /\ RowMatches(dl[p[1]][date_str][p[2]], dmap)}}

\* the step is a rename that keeps every file with its content and leaves,
\* for every file under the folder of a rewritten code, a file of the same
\* path under the folder of the stable code
CopyMergeStep ==
    last'.op \in RenameOps =>
       /\ uploads \subseteq uploads'
       /\ \A p \in RenamedCodes(deliverys, didi_map'[last'.date], last'.date) :
             \A f \in uploads :
                (f.folder = _sanitize_codigo(p.old) /\ f.sub \in FotoSubs)
                   => FileExists(uploads', _sanitize_codigo(p.new),
                                 f.sub, f.rel)

\* the rename run once more right after the step leaves every folder as
\* it is
RerunKeepsFolders ==
    \A o \in LocalOrders :
       \A r \in {_cross_didi_map_and_update_orders(
                    deliverys', uploads',
                    _build_restaurant_map_for_date(deliverys', last'.date),
                    didi_map'[last'.date], o, last'.date)} :
          r.up = uploads'

----------------------------------------------------------------------------
(* Properties of the appeals ledger *)

\* C10: no appeal record has both sede_decidio_no_apelar true and
\* monto_devuelto set.
C10_DeclineAppealExclusive ==
    \A i \in 1..Len(apelaciones) :
       ~ (apelaciones[i].sede_decidio_no_apelar
          /\ apelaciones[i].monto_devuelto # <<>>)

\* the record of a code in the ledger, 0 when the code was never marked
RecordOf(c) ==
    IF \E i \in 1..Len(apelaciones) : apelaciones[i].codigo = Strip(c)
    THEN CHOOSE i \in 1..Len(apelaciones) : apelaciones[i].codigo = Strip(c)
    ELSE 0

\* the refund events and the debit events a record holds
RefundEvents(item) == ListOf(item.reembolsos)
DebitEvents(item) == ListOf(item.descuentos)

\* outstandingLoss = max(0, amountWithheld - sum(refundEvents))
OutstandingLoss(item) ==
    Max0(item.monto_descontado - SumMontos(RefundEvents(item)))

\* debits of all kinds plus what the company absorbed
Covered(item) == SumMontos(DebitEvents(item)) + item.monto_empresa_asume

\* the records a step wrote
Written == {i \in 1..Len(apelaciones') :
              i > Len(apelaciones) \/ apelaciones'[i] # apelaciones[i]}

\* C11: in every reachable state the refund events of a record sum to at
\* most its monto_devuelto, whatever explicit or fill-remaining refunds
\* were registered.
C11_RefundCap ==
    \A i \in 1..Len(apelaciones) :
       apelaciones[i].monto_devuelto # <<>>
       => SumMontos(RefundEvents(apelaciones[i]))
            <= apelaciones[i].monto_devuelto[1]

\* C12: after programar-descuento or confirmar-descuento has recorded a
\* debit, the debit events plus the absorbed amount of the record do not
\* exceed its outstanding loss.
C12_DebitCap ==
    [][(/\ last'.op \in {"api_programar_descuento",
                         "api_confirmar_descuento"}
        /\ last'.status = 200)
       => \A i \in Written :
             Covered(apelaciones'[i]) <= OutstandingLoss(apelaciones'[i])]_vars

\* C13: after every successful asumir-empresa the absorbed amount plus the
\* debit events of the record do not exceed its outstanding loss.
C13_AbsorptionCap ==
    [][(last'.op = "api_asumir_empresa" /\ last'.status = 200)
       => \A i \in Written :
             Covered(apelaciones'[i]) <= OutstandingLoss(apelaciones'[i])]_vars

\* C14: asumir-empresa on a record whose loss is already covered by its
\* debit events plus the absorbed amount is refused, whatever amount is
\* asked for, and the ledger stays as it was.
C14_NoRemainder ==
    [][\A body \in AsumirBodies :
          (/\ last'.op = "api_asumir_empresa"
           /\ api_asumir_empresa(body)
           /\ RecordOf(body.codigo) # 0
           /\ OutstandingLoss(apelaciones[RecordOf(body.codigo)]) > 0
           /\ Covered(apelaciones[RecordOf(body.codigo)])
                >= OutstandingLoss(apelaciones[RecordOf(body.codigo)]))
          => /\ last'.status = 400
             /\ apelaciones' = apelaciones]_vars

\* a refused request writes nothing
LedgerUnchanged == UNCHANGED <<apelaciones, notificaciones, uploads>>

\* the records other than i are as they were
OthersUnchanged(i) ==
    /\ Len(apelaciones') = Len(apelaciones)
    /\ \A j \in 1..Len(apelaciones) : j # i => apelaciones'[j] = apelaciones[j]

\* events is old with one event more at its end
OneAppended(old, events) ==
    /\ Len(events) = Len(old) + 1
    /\ SubSeq(events, 1, Len(old)) = old

\* C15: apelar answers 404 for a code that was never marked and 400 for a
\* record whose monto_devuelto is already set, writing nothing in both
\* cases; otherwise it sets monto_devuelto to the amount given; and a
\* monto_devuelto that is set is never changed again.
C15_ApelarErrors ==
    [][/\ \A c \in MoneyCodigos, m \in MoneyDevueltos :
             (last'.op = "api_apelar" /\ api_apelar(c, m, D2, <<>>))
             => IF RecordOf(c) = 0
                THEN last'.status = 404 /\ LedgerUnchanged
                ELSE IF apelaciones[RecordOf(c)].monto_devuelto # <<>>
                THEN last'.status = 400 /\ LedgerUnchanged
                ELSE /\ last'.status = 200
                     /\ apelaciones'[RecordOf(c)].monto_devuelto = <<m>>
                     /\ OthersUnchanged(RecordOf(c))
       /\ \A i \in 1..Len(apelaciones) :
             apelaciones[i].monto_devuelto # <<>>
             => /\ i <= Len(apelaciones')
                /\ apelaciones'[i].monto_devuelto
                     = apelaciones[i].monto_devuelto]_vars

\* an appeal was refused because the record was appealed before
C15_Witness ==
    /\ last.op = "api_apelar"
    /\ last.status = 400
    /\ \E i \in 1..Len(apelaciones) : apelaciones[i].monto_devuelto # <<>>

\* the contribution a refund request asks for
RefundAsked(item, body) ==
    IF body.mismo_valor
    THEN item.monto_devuelto[1] - SumMontos(RefundEvents(item))
    ELSE IF body.monto_reembolsado = <<>> THEN 0
         ELSE body.monto_reembolsado[1]

\* C16: reembolsar on a marked record is refused with 400, writing
\* nothing, when monto_devuelto is unset or when the contribution would be
\* <= 0; otherwise it appends exactly one refund event, whose amount with
\* "mismo_valor" is monto_devuelto minus the refunds already registered.
C16_ReembolsarAppendsOne ==
    [][\A body \in ReembolsarBodies :
          (/\ last'.op = "api_reembolsar"
           /\ api_reembolsar(body)
           /\ RecordOf(body.codigo) # 0)
          => LET i == RecordOf(body.codigo)
                 item == apelaciones[i]
                 events == RefundEvents(apelaciones'[i])
             IN  IF item.monto_devuelto = <<>>
                 THEN last'.status = 400 /\ LedgerUnchanged
                 ELSE IF RefundAsked(item, body) <= 0
                 THEN last'.status = 400 /\ LedgerUnchanged
                 ELSE /\ last'.status = 200
                      /\ OneAppended(RefundEvents(item), events)
                      /\ events[Len(events)].monto = RefundAsked(item, body)
                      /\ OthersUnchanged(i)]_vars

\* a fill-remaining refund was registered after a part refund
C16_Witness ==
    /\ last.op = "api_reembolsar"
    /\ last.status = 200
    /\ \E i \in 1..Len(apelaciones) :
          /\ apelaciones[i].monto_devuelto = <<50000>>
          /\ Len(RefundEvents(apelaciones[i])) = 2
          /\ RefundEvents(apelaciones[i])[1].monto = 30000
          /\ RefundEvents(apelaciones[i])[2].monto = 20000

\* the amounts of a list of events
Montos(events) == [k \in 1..Len(events) |-> events[k].monto]

\* amountWithheld=50000, recordAppealResponse(50000), registerRefund(30000)
PartRefunded(item) ==
    /\ item.monto_descontado = 50000
    /\ item.monto_devuelto = <<50000>>
    /\ Montos(RefundEvents(item)) = <<30000>>

\* C17: the loss the program computes for a record is max(0,
\* monto_descontado - sum of its refund events) in every state; a record
\* with 50000 withheld, 50000 promised and one refund of 30000 has a loss
\* of 20000, and a fill-remaining refund then takes the loss to 0 and the
\* record to the state "reembolsada".
C17_LossArithmetic ==
    [][/\ \A i \in 1..Len(apelaciones') :
             /\ _calcular_perdida(apelaciones'[i])
                  = OutstandingLoss(apelaciones'[i])
             /\ PartRefunded(apelaciones'[i])
                => _calcular_perdida(apelaciones'[i]) = 20000
       /\ \A body \in ReembolsarBodies :
             (/\ last'.op = "api_reembolsar"
              /\ api_reembolsar(body)
              /\ body.mismo_valor
              /\ RecordOf(body.codigo) # 0
              /\ PartRefunded(apelaciones[RecordOf(body.codigo)]))
             => LET after == apelaciones'[RecordOf(body.codigo)]
                IN  /\ last'.status = 200
                    /\ _calcular_perdida(after) = 0
                    /\ \E k \in 1..Len(Estados(after)) :
                          Estados(after)[k] = "reembolsada"
                    /\ ~after.sede_decidio_no_apelar
                       => Estado(after) = "reembolsada"]_vars

\* the scenario's record after its fill-remaining refund
C17_Witness ==
    /\ last.op = "api_reembolsar"
    /\ \E i \in 1..Len(apelaciones) :
          /\ apelaciones[i].monto_descontado = 50000
          /\ Montos(RefundEvents(apelaciones[i])) = <<30000, 20000>>
          /\ _calcular_perdida(apelaciones[i]) = 0
          /\ Estado(apelaciones[i]) = "reembolsada"

\* C18: programar-descuento with an amount on a record whose outstanding
\* loss is > 0 appends exactly one debit event, not executed; on a record
\* whose outstanding loss is <= 0 programar-descuento,
\* confirmar-descuento and asumir-empresa are refused with 400 and write
\* nothing, and no query of the debit listing shows the record.
C18_NoLoss ==
    [][/\ \A body \in DescuentoBodies :
             (/\ last'.op = "api_programar_descuento"
              /\ api_programar_descuento(body)
              /\ RecordOf(body.codigo) # 0)
             => LET i == RecordOf(body.codigo)
                    item == apelaciones[i]
                    events == DebitEvents(apelaciones'[i])
                IN  IF OutstandingLoss(item) <= 0
                    THEN last'.status = 400 /\ LedgerUnchanged
                    ELSE body.monto > 0
                         => /\ last'.status = 200
                            /\ OneAppended(DebitEvents(item), events)
                            /\ events[Len(events)].monto = body.monto
                            /\ ~events[Len(events)].ejecutado
                            /\ OthersUnchanged(i)
       /\ \A body \in DescuentoBodies :
             (/\ last'.op = "api_confirmar_descuento"
              /\ api_confirmar_descuento(body)
              /\ RecordOf(body.codigo) # 0
              /\ OutstandingLoss(apelaciones[RecordOf(body.codigo)]) <= 0)
             => last'.status = 400 /\ LedgerUnchanged
       /\ \A body \in AsumirBodies :
             (/\ last'.op = "api_asumir_empresa"
              /\ api_asumir_empresa(body)
              /\ RecordOf(body.codigo) # 0
              /\ OutstandingLoss(apelaciones[RecordOf(body.codigo)]) <= 0)
             => last'.status = 400 /\ LedgerUnchanged
       /\ \A i \in Written :
             OutstandingLoss(apelaciones'[i]) <= 0
             => \A q \in ListQueries : i \notin api_apelaciones_descuentos(q)']_vars

\* a debit was asked for on a record whose loss was refunded in full
C18_Witness ==
    /\ last.op = "api_programar_descuento"
    /\ last.status = 400
    /\ \E i \in 1..Len(apelaciones) :
          /\ SumMontos(RefundEvents(apelaciones[i])) > 0
          /\ OutstandingLoss(apelaciones[i]) = 0

\* C19: ejecutar-descuento sets ejecutado on the one debit event that has
\* the id given and leaves every other event, and every field of that
\* event but ejecutado, as it was; for an unknown code or an id no event
\* of the record has it answers 404 and writes nothing.
C19_EjecutarExactlyOne ==
    [][\A body \in EjecutarBodies :
          (last'.op = "api_ejecutar_descuento" /\ api_ejecutar_descuento(body))
          => LET i == RecordOf(body.codigo)
                 old == IF i = 0 THEN <<>> ELSE DebitEvents(apelaciones[i])
                 hits == {k \in 1..Len(old) : old[k].id = body.descuento_id}
             IN  IF hits = {}
                 THEN last'.status = 404 /\ LedgerUnchanged
                 ELSE LET events == DebitEvents(apelaciones'[i])
                      IN  /\ last'.status = 200
                          /\ Cardinality(hits) = 1
                          /\ Len(events) = Len(old)
                          /\ \A k \in 1..Len(old) :
                                events[k] =
                                   IF k \in hits
                                   THEN [old[k] EXCEPT !.ejecutado = TRUE]
                                   ELSE old[k]
                          /\ apelaciones'[i].reembolsos
                               = apelaciones[i].reembolsos
                          /\ OthersUnchanged(i)]_vars

\* the second of two scheduled debits was executed, the first was not
C19_Witness ==
    /\ last.op = "api_ejecutar_descuento"
    /\ last.status = 200
    /\ \E i \in 1..Len(apelaciones) :
          /\ Len(DebitEvents(apelaciones[i])) = 2
          /\ ~DebitEvents(apelaciones[i])[1].ejecutado
          /\ DebitEvents(apelaciones[i])[2].ejecutado

\* C20: deshacer-empresa-asume sets monto_empresa_asume to 0, leaves the
\* refund and debit events as they were, and leaves descuento_confirmado
\* true exactly when the outstanding loss is > 0 and the executed debits
\* cover it.
C20_UndoAbsorption ==
    [][\A body \in AsumirBodies :
          (/\ last'.op = "api_deshacer_empresa_asume"
           /\ api_deshacer_empresa_asume(body)
           /\ RecordOf(body.codigo) # 0)
          => LET i == RecordOf(body.codigo)
                 after == apelaciones'[i]
             IN  /\ after.monto_empresa_asume = 0
                 /\ after.reembolsos = apelaciones[i].reembolsos
                 /\ after.descuentos = apelaciones[i].descuentos
                 /\ after.descuento_confirmado
                      = (/\ OutstandingLoss(after) > 0
                         /\ SumMontos(Ejecutados(DebitEvents(after)))
                              >= OutstandingLoss(after))]_vars

\* the site answered, declined, or let its days to appeal go by
Eligible(item) ==
    \/ item.sede_decidio_no_apelar
    \/ item.monto_devuelto # <<>>
    \/ now - item.fecha_marcado >= 5

\* the query GET /api/apelaciones/descuentos makes by default, and the one
\* with no filter
DefaultQuery ==
    [local |-> <<>>, solo_pendientes |-> TRUE, solo_confirmados |-> FALSE,
     solo_programados |-> FALSE, solo_empresa_asume |-> FALSE]
NoFilterQuery == [DefaultQuery EXCEPT !.solo_pendientes = FALSE]

\* C21: the debit listing never shows a record that has no answer, no
\* decline and fewer than 5 days since its marking; a record with a loss
\* and nothing covered that was answered or declined is listed at once, and
\* one that was neither is left out on day T + 4 and listed on day T + 5.
C21_EligibilityGate ==
    \A i \in 1..Len(apelaciones) :
       LET item == apelaciones[i]
       IN  /\ \A q \in ListQueries :
                 i \in api_apelaciones_descuentos(q) => Eligible(item)
           /\ OutstandingLoss(item) > 0
              => /\ i \in api_apelaciones_descuentos(NoFilterQuery)
                      <=> Eligible(item)
                 /\ Covered(item) = 0
                    => (i \in api_apelaciones_descuentos(DefaultQuery)
                          <=> Eligible(item))
           /\ (/\ OutstandingLoss(item) > 0
               /\ ~item.sede_decidio_no_apelar
               /\ item.monto_devuelto = <<>>)
              => /\ now = item.fecha_marcado + 4
                    => \A q \in ListQueries :
                          i \notin api_apelaciones_descuentos(q)
                 /\ now = item.fecha_marcado + 5
                    => i \in api_apelaciones_descuentos(DefaultQuery)

\* an order marked five days ago, neither answered nor declined, is listed
C21_Witness ==
    \E i \in 1..Len(apelaciones) :
       /\ ~apelaciones[i].sede_decidio_no_apelar
       /\ apelaciones[i].monto_devuelto = <<>>
       /\ now = apelaciones[i].fecha_marcado + 5
       /\ i \in api_apelaciones_descuentos(DefaultQuery)

\* C22: programar-descuento and confirmar-descuento add a debit event only
\* to a record whose site declined, answered, or let 5 days go by since the
\* marking.
C22_DebitRespectsGate ==
    [][\A body \in DescuentoBodies :
          (/\ last'.op \in {"api_programar_descuento", "api_confirmar_descuento"}
           /\ \/ api_programar_descuento(body)
              \/ api_confirmar_descuento(body)
           /\ RecordOf(body.codigo) # 0
           /\ Len(DebitEvents(apelaciones'[RecordOf(body.codigo)]))
                > Len(DebitEvents(apelaciones[RecordOf(body.codigo)])))
          => Eligible(apelaciones[RecordOf(body.codigo)])]_vars

\* the record of "A1" as the scenario leaves it before the company steps
\* in: 10000 withheld, declined by the site, one debit of 5000 executed
AfterDebit(item) ==
    /\ item.monto_descontado = 10000
    /\ item.monto_devuelto = <<>>
    /\ item.sede_decidio_no_apelar
    /\ Montos(DebitEvents(item)) = <<5000>>
    /\ DebitEvents(item)[1].ejecutado
    /\ item.monto_empresa_asume = 0

ConfirmadosQuery == [NoFilterQuery EXCEPT !.solo_confirmados = TRUE]

\* C23: on the record of "A1" with 10000 withheld, declined, and one debit
\* of 5000 executed, the listing reports a loss of 10000; asumir-empresa
\* with amount 0 then sets monto_empresa_asume to 5000, descuento_confirmado
\* is true, and the listing reports perdida_restante 0 and
\* perdida_restante_ejecutar 0 with the loss still 10000.
C23_AbsorbRemainder ==
    [][\A body \in CoverageAsumir :
          (/\ last'.op = "api_asumir_empresa"
           /\ api_asumir_empresa(body)
           /\ body.monto = 0
           /\ RecordOf(GateCodigo) # 0
           /\ AfterDebit(apelaciones[RecordOf(GateCodigo)]))
          => LET i == RecordOf(GateCodigo)
                 after == apelaciones'[i]
             IN  /\ DescuentosOut(apelaciones[i]).perdida = 10000
                 /\ last'.status = 200
                 /\ after.monto_empresa_asume = 5000
                 /\ after.descuento_confirmado
                 /\ DescuentosOut(after).perdida = 10000
                 /\ DescuentosOut(after).perdida_restante = 0
                 /\ DescuentosOut(after).perdida_restante_ejecutar = 0
                 /\ DescuentosOut(after).monto_empresa_asume = 5000
                 /\ after.descuentos = apelaciones[i].descuentos]_vars

\* the scenario's last state: the debit of 5000 executed and 5000 absorbed,
\* listed among the confirmed ones and no longer among the pending
C23_Witness ==
    /\ last.op = "api_asumir_empresa"
    /\ last.status = 200
    /\ \E i \in 1..Len(apelaciones) :
          /\ AfterDebit([apelaciones[i] EXCEPT !.monto_empresa_asume = 0])
          /\ apelaciones[i].monto_empresa_asume = 5000
          /\ i \in api_apelaciones_descuentos(ConfirmadosQuery)
          /\ i \notin api_apelaciones_descuentos(DefaultQuery)

\* the debits executed plus what the company absorbed cover a loss > 0
Debited(item) ==
    /\ OutstandingLoss(item) > 0
    /\ SumMontos(Ejecutados(DebitEvents(item))) + item.monto_empresa_asume
         >= OutstandingLoss(item)

Has(seq, x) == \E k \in 1..Len(seq) : seq[k] = x

\* C24: the estados that estado-admin and the reporte maestro compute for
\* a record hold "descuento_confirmado" exactly when its loss is > 0 and
\* the executed debits plus monto_empresa_asume reach the loss.
C24_DebitedState ==
    \A i \in 1..Len(apelaciones) :
       /\ Has(EstadoAdminOut(apelaciones[i]).estados, "descuento_confirmado")
            <=> Debited(apelaciones[i])
       /\ Has(ReporteOut(apelaciones[i]).estados_apelacion,
              "descuento_confirmado")
            <=> Debited(apelaciones[i])

\* what is left of the loss after all the debits, and after the executed
\* ones, and what the company absorbed
RemainingToSchedule(item) ==
    Max0(OutstandingLoss(item) - SumMontos(DebitEvents(item))
         - item.monto_empresa_asume)
RemainingToExecute(item) ==
    Max0(OutstandingLoss(item) - SumMontos(Ejecutados(DebitEvents(item)))
         - item.monto_empresa_asume)

\* C30: the listing of debits, the reporte maestro and estado-admin report
\* as perdida_restante the loss less all the debit events and the absorbed
\* amount, and as perdida_restante_ejecutar the loss less the executed
\* debit events and the absorbed amount, never below 0.
C30_RemainingAmounts ==
    \A i \in 1..Len(apelaciones) :
       LET item == apelaciones[i]
       IN  /\ DescuentosOut(item).perdida_restante = RemainingToSchedule(item)
           /\ DescuentosOut(item).perdida_restante_ejecutar
                = RemainingToExecute(item)
           /\ ReporteOut(item).perdida_restante = RemainingToSchedule(item)
           /\ ReporteOut(item).perdida_restante_ejecutar
                = RemainingToExecute(item)
           /\ EstadoAdminOut(item).perdida_restante
                = RemainingToSchedule(item)

\* a code without its blanks
Bare(c) == SelectSeq(c, LAMBDA ch : ch # " ")

\* the records that hold a code
RecordsOf(items, c) == {i \in 1..Len(items) : Bare(items[i].codigo) = Bare(c)}

\* C25: no step of the ledger removes a record or changes its code, no two
\* records hold the same code, only marcar adds a record, and marcar leaves
\* exactly one record of its code: a new one at the end when the code had
\* none, the one it had, with the amount given, when it had one.
C25_OneRecordPerCode ==
    [][/\ Len(apelaciones') >= Len(apelaciones)
       /\ \A i \in 1..Len(apelaciones) :
             apelaciones'[i].codigo = apelaciones[i].codigo
       /\ \A i \in 1..Len(apelaciones') :
             RecordsOf(apelaciones', apelaciones'[i].codigo) = {i}
       /\ last'.op # "api_marcar_apelacion"
          => Len(apelaciones') = Len(apelaciones)
       /\ \A body \in RecordMarcar :
             (last'.op = "api_marcar_apelacion" /\ api_marcar_apelacion(body))
             => /\ Cardinality(RecordsOf(apelaciones', body.codigo)) = 1
                /\ \A i \in RecordsOf(apelaciones', body.codigo) :
                      /\ apelaciones'[i].monto_descontado
                           = body.monto_descontado
                      /\ apelaciones'[i].fecha_marcado = now
                /\ IF RecordsOf(apelaciones, body.codigo) = {}
                   THEN Len(apelaciones') = Len(apelaciones) + 1
                   ELSE /\ Len(apelaciones') = Len(apelaciones)
                        /\ RecordsOf(apelaciones', body.codigo)
                             = RecordsOf(apelaciones, body.codigo)]_vars

\* two records, both answered or declined before the last marking: the
\* marking was of a code that had its record
C25_Witness ==
    /\ last.op = "api_marcar_apelacion"
    /\ Len(apelaciones) = 2
    /\ \A i \in 1..Len(apelaciones) :
          \/ apelaciones[i].sede_decidio_no_apelar
          \/ apelaciones[i].monto_devuelto # <<>>

\* events holds the events of old at their places, an executed flag may
\* have gone from false to true
Extends(old, events) ==
    /\ Len(events) >= Len(old)
    /\ \A k \in 1..Len(old) :
          /\ events[k].monto = old[k].monto
          /\ events[k].fecha = old[k].fecha
          /\ "ejecutado" \in DOMAIN old[k]
             => /\ events[k].id = old[k].id
                /\ events[k].quincena = old[k].quincena
                /\ old[k].ejecutado => events[k].ejecutado

\* the refund and debit events of every record are kept by the step
ListsExtended ==
    \A i \in 1..Len(apelaciones) :
       /\ i <= Len(apelaciones')
       /\ Extends(RefundEvents(apelaciones[i]), RefundEvents(apelaciones'[i]))
       /\ Extends(DebitEvents(apelaciones[i]), DebitEvents(apelaciones'[i]))

\* C26 as stated: every step of the ledger keeps the refund and debit
\* events of every record at their places, with their amounts, periods and
\* dates and with executed flags that only go from false to true, and never
\* writes a smaller monto_empresa_asume.
C26_StrictlyAdditive ==
    [][/\ ListsExtended
       /\ \A i \in 1..Len(apelaciones) :
             apelaciones'[i].monto_empresa_asume
               >= apelaciones[i].monto_empresa_asume]_vars

\* C26, amended: every step of the ledger keeps the refund and debit events
\* as above, and every step other than deshacer-empresa-asume writes no
\* smaller monto_empresa_asume; deshacer-empresa-asume writes 0.
C26_AppendOnly ==
    [][/\ ListsExtended
       /\ \A i \in 1..Len(apelaciones) :
             IF last'.op = "api_deshacer_empresa_asume"
             THEN apelaciones'[i].monto_empresa_asume
                    \in {0, apelaciones[i].monto_empresa_asume}
             ELSE apelaciones'[i].monto_empresa_asume
                    >= apelaciones[i].monto_empresa_asume]_vars

\* a second refund went in after the first one
C26_Witness ==
    /\ last.op = "api_reembolsar"
    /\ last.status = 200
    /\ \E i \in 1..Len(apelaciones) :
          Montos(RefundEvents(apelaciones[i])) = <<30000, 20000>>

\* C27: the ledger holds the debit event of every programar-descuento
\* request that was answered, also when two of them ran at once.
C27_NoLostUpdates ==
    \A t \in Threads :
       requests[t].pc = "done"
       => \E i \in 1..Len(apelaciones) :
             \E k \in 1..Len(DebitEvents(apelaciones[i])) :
                DebitEvents(apelaciones[i])[k].id = requests[t].id

\* all the sites of the iteration
AllSites == {local_ids[i] : i \in 1..Len(local_ids)}

\* no partition loses a delivery_id in the step
IdsKept ==
    \A l \in DOMAIN deliverys, d \in Dates :
       StoredIds(deliverys[l][d]) \subseteq StoredIds(deliverys'[l][d])

\* the step where the fetch of a site fails goes on to the next site and
\* takes no delivery_id out of any partition
FailureGoesOn ==
    scheduler'.failed # scheduler.failed /\ scheduler'.failed # {}
    => /\ scheduler'.pos = scheduler.pos + 1
       /\ scheduler'.status = "calling_deliverys"
       /\ ~scheduler'.last_error
       /\ IdsKept
       /\ \A l \in DOMAIN deliverys :
             l # local_ids[scheduler.pos] => deliverys'[l] = deliverys[l]

\* after a failure the next step of the poller fetches the site that is
\* next, merges the rows of the day it got and loses no delivery_id
LaterSitesMerged ==
    (/\ scheduler.failed # {}
     /\ scheduler.pos \in 1..Len(local_ids)
     /\ scheduler' # scheduler)
    => /\ last'.op = "scheduler_save"
       /\ last'.local = local_ids[scheduler.pos]
       /\ scheduler'.saved = scheduler.saved \cup {local_ids[scheduler.pos]}
       /\ {Strip(last'.data[k].delivery_id) :
             k \in {j \in 1..Len(last'.data) :
                      FechaDay(last'.data[j].delivery_fecha) = Hoy}}
            \subseteq StoredIds(deliverys'[last'.local][Hoy])
       /\ IdsKept

\* the iteration ends only after every site had its turn, and sets the
\* time of the next one
EndsAfterAllSites ==
    scheduler.pos # 0 /\ scheduler'.pos = 0
    => /\ scheduler.saved = AllSites
       /\ scheduler'.runs = scheduler.runs + 1
       /\ scheduler'.status = "deliverys_ready"
       /\ IdsKept

\* C28: when the fetch of a site fails, the iteration goes on: its next
\* steps fetch the sites after it and merge their rows, no partition loses
\* a delivery_id, and the iteration ends only with every site saved and the
\* next iteration scheduled.
C28_SiteFailureIsolated ==
    [][FailureGoesOn /\ LaterSitesMerged /\ EndsAfterAllSites]_vars

\* the fetch of the first site failed, its stored order is still there, the
\* second site's order was merged, and the iteration is over
C28_Witness ==
    /\ last.op = "scheduler_finish"
    /\ scheduler.failed = {local_ids[1]}
    /\ scheduler.saved = AllSites
    /\ scheduler.runs = 2
    /\ StoredIds(deliverys[local_ids[1]][Hoy]) # {}
    /\ StoredIds(deliverys[local_ids[2]][Hoy]) # {}

----------------------------------------------------------------------------
(* Properties of the reports *)

ReportOps ==
    {"api_informes", "api_reporte_maestro", "api_apelaciones_reporte",
     "api_apelaciones_estado_admin", "api_apelaciones_descuentos",
     "api_reembolsos_pendientes"}

\* no file of orders has a row, the ledger has no record
OrderStoreEmpty ==
    \A l \in DOMAIN deliverys, d \in Dates : deliverys[l][d] = <<>>
LedgerEmpty == apelaciones = <<>>

\* what is persisted is what it was
StoresKept ==
    /\ deliverys' = deliverys /\ didi_map' = didi_map /\ uploads' = uploads
    /\ no_entregadas' = no_entregadas
    /\ apelaciones' = apelaciones /\ notificaciones' = notificaciones

\* the counts of orders of an answer are zero
NoOrders(a) ==
    /\ a.op = "api_informes"
       => /\ a.data.resumen.total_ordenes = 0
          /\ a.data.resumen.ordenes_sin_apelacion = 0
          /\ a.data.resumen.pct_con_problemas = 0
    /\ a.op = "api_reporte_maestro"
       => a.data.totalRecords = 0 /\ a.data.rows = {}

\* the counts and the sums of appeals of an answer are zero
NoAppeals(a) ==
    /\ a.op = "api_informes"
       => LET r == a.data.resumen
          IN  /\ r.ordenes_con_apelacion = 0 /\ r.pct_con_problemas = 0
              /\ r.sin_apelar = 0 /\ r.apeladas = 0 /\ r.sede_no_apelar = 0
              /\ r.total_descontado_canal = 0 /\ r.total_devuelto = 0
              /\ r.total_reembolsos = 0 /\ r.pendiente_reembolso = 0
              /\ r.monto_pendiente_reembolso = 0
              /\ r.total_descuentos_sede = 0
              /\ r.monto_pendiente_descuento = 0
              /\ r.empresa_asume = 0 /\ r.total_perdida = 0
    /\ a.op = "api_reporte_maestro"
       => \A row \in a.data.rows : row.apelacion = <<>>
    /\ a.op = "api_apelaciones_reporte"
       => /\ a.data.total_descontado = 0 /\ a.data.total_devuelto = 0
          /\ a.data.total_perdido = 0 /\ a.data.items = <<>>
    /\ a.op \in {"api_apelaciones_estado_admin",
                 "api_apelaciones_descuentos", "api_reembolsos_pendientes"}
       => a.data.items = <<>>

Answered == last'.op \in ReportOps /\ last'.status = 200

\* C29: a query of the reports that answers leaves the order files, the
\* Didi map, the photo folders and the ledger as they were; while no order
\* is stored its counts of orders are zero, and while the ledger has no
\* record its counts and sums of appeals are zero.
C29_ReportsReadOnly ==
    [][Answered => /\ StoresKept
                   /\ OrderStoreEmpty => NoOrders(last')
                   /\ LedgerEmpty => NoAppeals(last')]_vars

----------------------------------------------------------------------------
(* Properties of the merge of a batch with malformed records *)

\* an object whose delivery_id and delivery_fecha are strings, with a date
WellFormed(row) ==
    /\ IsDict(row)
    /\ row.delivery_id # NotAString /\ row.delivery_fecha # NotAString
    /\ FechaDay(row.delivery_fecha) \in Dates

\* the rows of the batch the merge is to take: the well-formed ones with a
\* delivery_id, of the consultation date when there is one
ToMerge(data, cd) ==
    {i \in 1..Len(data) :
        /\ WellFormed(data[i])
        /\ Strip(data[i].delivery_id) # <<>>
        /\ cd = <<>> \/ FechaDay(data[i].delivery_fecha) = Prefix(Strip(cd), 10)}

\* C32: a save of a batch, whatever malformed records it has, stores every
\* well-formed record of the batch in the file of its date and keeps every
\* delivery_id that was stored.
C32_MalformedSkipped ==
    [][last'.op \in {"save", "save_raised"}
       => /\ \A i \in ToMerge(last'.data, last'.date) :
                Strip(last'.data[i].delivery_id) \in
                    StoredIds(deliverys'[last'.local]
                                        [FechaDay(last'.data[i].delivery_fecha)])
          /\ \A d \in Dates :
                StoredIds(deliverys[last'.local][d])
                    \subseteq StoredIds(deliverys'[last'.local][d])]_vars

----------------------------------------------------------------------------
(* Properties of marking again *)

\* the fields marcar may write in a record that exists
MarkFields ==
    {"canal", "delivery_id", "monto_descontado", "fecha_marcado", "local",
     "fecha"}

\* C33: marcar on a code that has a record leaves the ledger with the same
\* records in the same places; in the record of the code every field but
\* canal, delivery_id, monto_descontado, local, fecha and fecha_marcado is
\* what it was, among them monto_devuelto, sede_decidio_no_apelar, the
\* refund events, the debit events and monto_empresa_asume; every other
\* record is what it was.
C33_RemarkFrame ==
    [][\A body \in RemarkMarcar :
          (/\ last'.op = "api_marcar_apelacion"
           /\ api_marcar_apelacion(body)
           /\ RecordOf(body.codigo) # 0)
          => LET i == RecordOf(body.codigo)
             IN  /\ Len(apelaciones') = Len(apelaciones)
                 /\ \A j \in 1..Len(apelaciones) :
                       j # i => apelaciones'[j] = apelaciones[j]
                 /\ DOMAIN apelaciones'[i] = DOMAIN apelaciones[i]
                 /\ \A f \in DOMAIN apelaciones[i] \ MarkFields :
                       apelaciones'[i][f] = apelaciones[i][f]]_vars

\* the order was marked again with twice the amount after a refund, a
\* debit and an absorption, all of which are still in its record, beside
\* the record of another order
C33_Witness ==
    /\ last.op = "api_marcar_apelacion"
    /\ Len(apelaciones) = 2
    /\ RecordOf(GateCodigo) = 1
    /\ LET item == apelaciones[RecordOf(GateCodigo)]
       IN  /\ item.monto_descontado = 20000
           /\ item.monto_devuelto = <<5000>>
           /\ RefundEvents(item) # <<>>
           /\ DebitEvents(item) # <<>>
           /\ item.monto_empresa_asume > 0

\* C34: in every state the stored descuento_confirmado of a record is true
\* exactly when its outstanding loss is > 0 and its executed debits plus
\* monto_empresa_asume reach that loss.
C34_StoredFlagAgrees ==
    \A i \in 1..Len(apelaciones) :
        apelaciones[i].descuento_confirmado = Debited(apelaciones[i])

\* C35: for every record of the ledger the list of states estado-admin
\* derives is the list the reporte maestro derives.
C35_SingleDerivation ==
    \A i \in 1..Len(apelaciones) :
        Estados(apelaciones[i]) = ReporteOut(apelaciones[i]).estados_apelacion

\* a record that has a loss and is eligible keeps its place and its loss
\* in the step
StaysAtLoss(i) ==
    /\ OutstandingLoss(apelaciones[i]) > 0
    /\ Eligible(apelaciones[i])
    /\ i <= Len(apelaciones')
    /\ OutstandingLoss(apelaciones'[i]) > 0

\* C36, as stated: a record with a loss that is eligible is eligible after
\* every step that leaves it a loss, marcar on its code among them.
C36_EligibilityMonotone ==
    [][\A i \in 1..Len(apelaciones) :
          StaysAtLoss(i) => Eligible(apelaciones[i])']_vars

\* C36, amended: a record with a loss that is eligible is eligible after
\* every step that leaves it a loss, except that marcar on the code of a
\* record the site neither declined nor answered starts its days to appeal
\* anew.
C36_EligibilityKept ==
    [][\A i \in 1..Len(apelaciones) :
          (/\ StaysAtLoss(i)
           /\ \/ last'.op # "api_marcar_apelacion"
              \/ apelaciones[i].sede_decidio_no_apelar
              \/ apelaciones[i].monto_devuelto # <<>>)
          => Eligible(apelaciones[i])']_vars

\* the order, answered by the site and with a loss left, was marked again
\* after its days to appeal had gone by, and is eligible
C36_Witness ==
    /\ last.op = "api_marcar_apelacion"
    /\ RecordOf(GateCodigo) # 0
    /\ LET item == apelaciones[RecordOf(GateCodigo)]
       IN  /\ item.monto_devuelto = <<5000>>
           /\ item.fecha_marcado >= 5
           /\ OutstandingLoss(item) > 0
           /\ Eligible(item)

----------------------------------------------------------------------------
(* Properties of the dates of the poller *)

\* C37: the step that ends an iteration of the poller rebuilds the
\* restaurant map and applies the renames for the date of the partition
\* the iteration merged its rows into, which is the consultation date Hoy.
C37_ReconcilesMergedDate ==
    [][last'.op = "scheduler_finish" => last'.date = Hoy]_vars

----------------------------------------------------------------------------
(* Properties of the two lists of the site *)

\* C38: in every state, for every site, date and filter, no record is both
\* among the orders GET /api/apelaciones/pendientes answers with and among
\* the records GET /api/apelaciones/descuentos answers with.
C38_ListsDisjoint ==
    \A l \in DOMAIN deliverys, d \in Dates, q \in ListQueries :
        api_apelaciones_pendientes(deliverys, apelaciones, l, d)
            \cap api_apelaciones_descuentos(q) = {}

\* the order is stored and its record, neither answered nor declined, is in
\* the list of debits because its days to appeal are over, and not in the
\* list of pending appeals
C38_Witness ==
    /\ Len(apelaciones) = 1
    /\ apelaciones[1].monto_devuelto = <<>>
    /\ ~apelaciones[1].sede_decidio_no_apelar
    /\ StoredIds(deliverys["12"][Hoy]) # {}
    /\ api_apelaciones_descuentos(NoFilterQuery) = {1}
    /\ api_apelaciones_pendientes(deliverys, apelaciones, "12", Hoy) = {}

----------------------------------------------------------------------------
(* Properties of the requests for a code without record *)

\* the answer is 404 and the ledger is what it was
NotFound == last'.status = 404 /\ apelaciones' = apelaciones

\* C39: apelar, no-apelar, reembolsar, confirmar-descuento,
\* programar-descuento, ejecutar-descuento, asumir-empresa and
\* deshacer-empresa-asume, called with a code that has no record, answer
\* 404 and leave the ledger as it was.
C39_UnknownCodeNotFound ==
    [][/\ \A c \in MoneyCodigos, m \in MoneyDevueltos :
             (/\ last'.op = "api_apelar" /\ api_apelar(c, m, D2, <<>>)
              /\ RecordOf(c) = 0) => NotFound
       /\ \A c \in MoneyCodigos :
             (/\ last'.op = "api_no_apelar" /\ api_no_apelar(c)
              /\ RecordOf(c) = 0) => NotFound
       /\ \A body \in ReembolsarBodies :
             (/\ last'.op = "api_reembolsar" /\ api_reembolsar(body)
              /\ RecordOf(body.codigo) = 0) => NotFound
       /\ \A body \in DescuentoBodies :
             /\ (/\ last'.op = "api_confirmar_descuento"
                 /\ api_confirmar_descuento(body)
                 /\ RecordOf(body.codigo) = 0) => NotFound
             /\ (/\ last'.op = "api_programar_descuento"
                 /\ api_programar_descuento(body)
                 /\ RecordOf(body.codigo) = 0) => NotFound
       /\ \A body \in EjecutarBodies :
             (/\ last'.op = "api_ejecutar_descuento"
              /\ api_ejecutar_descuento(body)
              /\ RecordOf(body.codigo) = 0) => NotFound
       /\ \A body \in AsumirBodies :
             /\ (/\ last'.op = "api_asumir_empresa"
                 /\ api_asumir_empresa(body)
                 /\ RecordOf(body.codigo) = 0) => NotFound
             /\ (/\ last'.op = "api_deshacer_empresa_asume"
                 /\ api_deshacer_empresa_asume(body)
                 /\ RecordOf(body.codigo) = 0) => NotFound]_vars

----------------------------------------------------------------------------
(* Properties of the consolidation of the photo folders *)

\* the file as it is under another folder
Under(f, folder) == [f EXCEPT !.folder = folder]

\* every file of a folder the consolidation moved is under the canonical
\* folder afterwards
MovedFilesKept ==
    \A k \in 1..Len(last'.data) :
       \A f \in uploads :
          f.folder = last'.data[k].from
             => Under(f, last'.data[k].to) \in uploads'

\* no file of a canonical folder has been replaced
CanonFilesKept ==
    \A k \in 1..Len(last'.data) :
       \A f \in uploads : f.folder = last'.data[k].to => f \in uploads'

\* C40: after organize-foto-refs has moved an alternative folder into the
\* canonical folder, every file that was under the alternative folder, in
\* any group, is under the canonical folder, and no file that was under the
\* canonical folder has been replaced
C40_ConsolidationLosesNothing ==
    [][last'.op = "api_organize_foto_refs"
          => MovedFilesKept /\ CanonFilesKept]_vars

----------------------------------------------------------------------------
(* Properties of the shutdown *)

\* C31: when the shutdown has ended the poller, no iteration is left in
\* the middle: an iteration that had started saved every site and ran the
\* reconciliation before the poller stopped.
C31_CooperativeCancellation ==
    scheduler.task = "cancelled" => scheduler.pos = 0

====
